---- MODULE Spec2Model ----
(***************************************************************************)
(* Model of the Elara proxy service (packages/proxy-service/app.py):       *)
(* URL normalisation and the SSRF guard, the session cookie jar, the audit *)
(* log, and the two fetch entry points /proxy and /resource served by      *)
(* concurrent request handlers.                                            *)
(***************************************************************************)
EXTENDS Integers, Sequences, FiniteSets, TLC

(***************************************************************************)
(* Strings.  A Python str is a TLA+ string; characters are its substrings  *)
(* of length one.                                                          *)
(***************************************************************************)
At(s, i) == SubSeq(s, i, i)

From(s, i) == SubSeq(s, i, Len(s))

StartsWith(s, p) == Len(p) <= Len(s) /\ SubSeq(s, 1, Len(p)) = p

EndsWith(s, p) == Len(p) <= Len(s) /\ SubSeq(s, Len(s) - Len(p) + 1, Len(s)) = p

\* str.find(c, start): the first index of the character c at or after
\* `start`, 0 if none
FindFrom(s, c, start) ==
    IF \E i \in start..Len(s) : At(s, i) = c
    THEN CHOOSE i \in start..Len(s) :
             At(s, i) = c /\ \A j \in start..(i - 1) : At(s, j) # c
    ELSE 0

Find(s, c) == FindFrom(s, c, 1)

RECURSIVE RFindFrom(_, _, _)
RFindFrom(s, c, end) ==
    IF end < 1 THEN 0
    ELSE IF At(s, end) = c THEN end
    ELSE RFindFrom(s, c, end - 1)

\* str.rfind(c): the last index of the character c, 0 if none
RFind(s, c) == RFindFrom(s, c, Len(s))

\* the first index at or after `start` of any character of the set cs, 0 if none
FindAnyFrom(s, cs, start) ==
    IF \E i \in start..Len(s) : At(s, i) \in cs
    THEN CHOOSE i \in start..Len(s) :
             At(s, i) \in cs /\ \A j \in start..(i - 1) : At(s, j) \notin cs
    ELSE 0

Contains(s, c) == Find(s, c) # 0

\* `sub in s` for a substring
HasSubstring(s, sub) ==
    \E i \in 1..(Len(s) - Len(sub) + 1) : SubSeq(s, i, i + Len(sub) - 1) = sub

\* str.partition(c) and str.rpartition(c) for a one-character separator
Partition(s, c) ==
    LET i == Find(s, c)
    IN  IF i = 0 THEN <<s, "", "">>
        ELSE <<SubSeq(s, 1, i - 1), c, From(s, i + 1)>>

RPartition(s, c) ==
    LET i == RFind(s, c)
    IN  IF i = 0 THEN <<"", "", s>>
        ELSE <<SubSeq(s, 1, i - 1), c, From(s, i + 1)>>

UpperLetters == "ABCDEFGHIJKLMNOPQRSTUVWXYZ"

LowerLetters == "abcdefghijklmnopqrstuvwxyz"

Digits == "0123456789"

DigitChars == {At(Digits, i) : i \in 1..10}

LetterChars == {At(UpperLetters, i) : i \in 1..26} \cup {At(LowerLetters, i) : i \in 1..26}

IsDigit(c) == c \in DigitChars

IsLetter(c) == c \in LetterChars

\* the lower-case letter of each upper-case letter
LowerOf ==
    [c \in {At(UpperLetters, i) : i \in 1..26} |->
        At(LowerLetters, CHOOSE i \in 1..26 : At(UpperLetters, i) = c)]

LowerChar(c) == IF c \in DOMAIN LowerOf THEN LowerOf[c] ELSE c

RECURSIVE Lower(_)
\* str.lower()
Lower(s) ==
    IF Len(s) <= 1 THEN LowerChar(s)
    ELSE Lower(SubSeq(s, 1, Len(s) \div 2)) \o Lower(From(s, Len(s) \div 2 + 1))

Whitespace == {" ", "\t", "\n", "\r", "\f"}

RECURSIVE LStrip(_)
LStrip(s) == IF s # "" /\ At(s, 1) \in Whitespace THEN LStrip(From(s, 2)) ELSE s

RECURSIVE RStrip(_)
RStrip(s) ==
    IF s # "" /\ At(s, Len(s)) \in Whitespace
    THEN RStrip(SubSeq(s, 1, Len(s) - 1))
    ELSE s

\* str.strip()
Strip(s) == RStrip(LStrip(s))

RECURSIVE Split(_, _)
\* str.split(c): the list of the parts between occurrences of c
Split(s, c) ==
    LET i == Find(s, c)
    IN  IF i = 0 THEN <<s>>
        ELSE <<SubSeq(s, 1, i - 1)>> \o Split(From(s, i + 1), c)

RECURSIVE ToInt(_)
\* int(s, 10) of a string of decimal digits
ToInt(s) ==
    IF s = "" THEN 0
    ELSE 10 * ToInt(SubSeq(s, 1, Len(s) - 1)) + (Find(Digits, At(s, Len(s))) - 1)

AllDigits(s) == s # "" /\ \A i \in 1..Len(s) : IsDigit(At(s, i))

RECURSIVE IntToStr(_)
\* str(n) of a natural number
IntToStr(n) ==
    IF n < 10 THEN At(Digits, n + 1)
    ELSE IntToStr(n \div 10) \o At(Digits, (n % 10) + 1)

(***************************************************************************)
(* urllib.parse.urlparse, as app.py uses it: the six components, the       *)
(* hostname and port properties, and the ValueError of an unbalanced       *)
(* bracket in the netloc.                                                  *)
(***************************************************************************)
SchemeChar(c) == IsLetter(c) \/ IsDigit(c) \/ c \in {"+", "-", "."}

\* urlsplit's scheme step: <<scheme, rest>>
SchemeAt(url, i) ==
    IF /\ i > 1
       /\ IsLetter(At(url, 1))
       /\ \A j \in 1..(i - 1) : SchemeChar(At(url, j))
    THEN <<Lower(SubSeq(url, 1, i - 1)), From(url, i + 1)>>
    ELSE <<"", url>>

SplitScheme(url) == SchemeAt(url, Find(url, ":"))

\* _splitnetloc(url, 2): <<netloc, rest>> of a rest that begins with //
NetlocUpTo(rest, d) ==
    IF d = 0 THEN <<From(rest, 3), "">>
    ELSE <<SubSeq(rest, 3, d - 1), From(rest, d)>>

SplitNetloc(rest) ==
    IF StartsWith(rest, "//")
    THEN NetlocUpTo(rest, FindAnyFrom(rest, {"/", "?", "#"}, 3))
    ELSE <<"", rest>>

\* _splitparams(path): <<path, params>>
ParamsAt(path, i) ==
    IF i = 0 THEN <<path, "">>
    ELSE <<SubSeq(path, 1, i - 1), From(path, i + 1)>>

ParamsAfter(path, slash) ==
    ParamsAt(path, IF slash # 0 THEN FindFrom(path, ";", slash) ELSE Find(path, ";"))

SplitParams(path) == ParamsAfter(path, RFind(path, "/"))

\* the six components; error is the ValueError("Invalid IPv6 URL") of a
\* netloc with one bracket only
ParseResult(scheme, netloc, pp, query, fragment) ==
    [ scheme   |-> scheme,
      netloc   |-> netloc,
      path     |-> pp[1],
      params   |-> pp[2],
      query    |-> query,
      fragment |-> fragment,
      error    |-> Contains(netloc, "[") # Contains(netloc, "]") ]

ParseQuery(scheme, netloc, fragment, qr) ==
    ParseResult(scheme, netloc, SplitParams(qr[1]), qr[3], fragment)

ParseFragment(scheme, netloc, fr) ==
    ParseQuery(scheme, netloc, fr[3], Partition(fr[1], "?"))

ParseNetloc(scheme, nl) == ParseFragment(scheme, nl[1], Partition(nl[2], "#"))

ParseScheme(ss) == ParseNetloc(ss[1], SplitNetloc(ss[2]))

\* urlparse(url): scheme, netloc, fragment, query, params, in urlsplit's order
urlparse(url) == ParseScheme(SplitScheme(LStrip(url)))

\* SplitResult._hostinfo: <<hostname, port>> as written in the netloc
BracketedHost(cl) == <<cl[1], Partition(cl[3], ":")[3]>>

PlainHost(hp) == <<hp[1], hp[3]>>

HostInfoBracket(hostinfo, br) ==
    IF br[2] # ""
    THEN BracketedHost(Partition(br[3], "]"))
    ELSE PlainHost(Partition(hostinfo, ":"))

HostInfoOf(hostinfo) == HostInfoBracket(hostinfo, Partition(hostinfo, "["))

HostInfo(netloc) == HostInfoOf(RPartition(netloc, "@")[3])

\* SplitResult.hostname: lower-cased up to a zone separator; "" stands for None
LowerBeforeZone(z) == Lower(z[1]) \o z[2] \o z[3]

Hostname(p) == LowerBeforeZone(Partition(HostInfo(p.netloc)[1], "%"))

\* SplitResult.port: present is false for None; raises for a port that is no
\* decimal number or lies outside 0..65535
PortOf(port) ==
    IF port = "" THEN [present |-> FALSE, raises |-> FALSE, value |-> 0]
    ELSE IF ~AllDigits(port) \/ Len(port) > 5 \/ ToInt(port) > 65535
    THEN [present |-> TRUE, raises |-> TRUE, value |-> 0]
    ELSE [present |-> TRUE, raises |-> FALSE, value |-> ToInt(port)]

Port(p) == PortOf(HostInfo(p.netloc)[2])

\* urlunparse of the six components
UnsplitNetloc(scheme, netloc, url) ==
    IF netloc # "" \/ (scheme # "" /\ ~StartsWith(url, "//"))
    THEN "//" \o netloc \o (IF url # "" /\ ~StartsWith(url, "/") THEN "/" \o url ELSE url)
    ELSE url

urlunparse(scheme, netloc, path, params, query, fragment) ==
    (IF scheme # "" THEN scheme \o ":" ELSE "")
    \o UnsplitNetloc(scheme, netloc, IF params # "" THEN path \o ";" \o params ELSE path)
    \o (IF query # "" THEN "?" \o query ELSE "")
    \o (IF fragment # "" THEN "#" \o fragment ELSE "")

(***************************************************************************)
(* urllib.parse.urljoin, as rewrite_html_content uses it.  The result is   *)
(* the joined URL, or raised = TRUE for the ValueError of urlparse.        *)
(***************************************************************************)
uses_relative ==
    { "", "ftp", "http", "gopher", "nntp", "imap", "wais", "file", "https", "shttp",
      "mms", "prospero", "rtsp", "rtsps", "rtspu", "sftp", "svn", "svn+ssh", "ws", "wss" }

uses_netloc ==
    { "", "ftp", "http", "gopher", "nntp", "telnet", "imap", "wais", "file", "mms",
      "https", "shttp", "snews", "prospero", "rtsp", "rtsps", "rtspu", "rsync", "svn",
      "svn+ssh", "sftp", "nfs", "git", "git+ssh", "ws", "wss" }

Joined(value) == [raised |-> FALSE, value |-> value]

JoinRaised == [raised |-> TRUE, value |-> ""]

RECURSIVE FilterEmpty(_)
\* filter(None, parts)
FilterEmpty(parts) ==
    IF parts = << >> THEN << >>
    ELSE (IF Head(parts) = "" THEN << >> ELSE <<Head(parts)>>) \o FilterEmpty(Tail(parts))

RECURSIVE JoinWith(_, _)
\* sep.join(parts)
JoinWith(parts, sep) ==
    IF parts = << >> THEN ""
    ELSE IF Len(parts) = 1 THEN parts[1]
    ELSE parts[1] \o sep \o JoinWith(Tail(parts), sep)

\* base_parts: the segments of the base path without its last, non-directory one
BaseParts(parts) ==
    IF parts[Len(parts)] # "" THEN SubSeq(parts, 1, Len(parts) - 1) ELSE parts

\* segments[1:-1] = filter(None, segments[1:-1])
FilterInner(segments) ==
    IF Len(segments) < 2 THEN segments
    ELSE <<segments[1]>> \o FilterEmpty(SubSeq(segments, 2, Len(segments) - 1))
             \o <<segments[Len(segments)]>>

Segments(base_parts, path) ==
    IF StartsWith(path, "/") THEN Split(path, "/")
    ELSE FilterInner(base_parts \o Split(path, "/"))

RECURSIVE Resolve(_, _)
\* the loop over segments that builds resolved_path
Resolve(segments, resolved_path) ==
    IF segments = << >> THEN resolved_path
    ELSE Resolve(Tail(segments),
                 IF Head(segments) = ".."
                 THEN SubSeq(resolved_path, 1, Len(resolved_path) - 1)
                 ELSE IF Head(segments) = "." THEN resolved_path
                 ELSE Append(resolved_path, Head(segments)))

ResolvedPath(segments, resolved_path) ==
    JoinWith(IF segments[Len(segments)] \in {".", ".."}
             THEN Append(resolved_path, "") ELSE resolved_path, "/")

OrSlash(path) == IF path = "" THEN "/" ELSE path

UrlJoinSegments(u, netloc, segments) ==
    Joined(urlunparse(u.scheme, netloc,
                      OrSlash(ResolvedPath(segments, Resolve(segments, << >>))),
                      u.params, u.query, u.fragment))

UrlJoinRelative(b, u, netloc) ==
    IF u.path = "" /\ u.params = ""
    THEN Joined(urlunparse(u.scheme, netloc, b.path, b.params,
                           IF u.query = "" THEN b.query ELSE u.query, u.fragment))
    ELSE UrlJoinSegments(u, netloc, Segments(BaseParts(Split(b.path, "/")), u.path))

UrlJoinSchemed(b, u, url) ==
    IF u.scheme # b.scheme \/ u.scheme \notin uses_relative THEN Joined(url)
    ELSE IF u.scheme \in uses_netloc /\ u.netloc # ""
    THEN Joined(urlunparse(u.scheme, u.netloc, u.path, u.params, u.query, u.fragment))
    ELSE UrlJoinRelative(b, u, IF u.scheme \in uses_netloc THEN b.netloc ELSE u.netloc)

\* urlparse(url, bscheme): the base's scheme for a URL that names none
UrlJoinParsed(b, u, url) ==
    IF b.error \/ u.error THEN JoinRaised
    ELSE UrlJoinSchemed(b, [u EXCEPT !.scheme = IF @ = "" THEN b.scheme ELSE @], url)

urljoin(base, url) ==
    IF base = "" THEN Joined(url)
    ELSE IF url = "" THEN Joined(base)
    ELSE UrlJoinParsed(urlparse(base), urlparse(url), url)

(***************************************************************************)
(* rewrite_html_content (app.py 261-378).                                  *)
(***************************************************************************)
\* lines 271-311: the bridge script, its JavaScript shortened to a comment.
\* Like the original it starts and ends with a newline and holds no tag
\* opening, attribute or url( that a later step of the rewrite matches.
postmessage_script == "\n<script>/* postMessage bridge */</script>\n"

\* sub begins at index i of s
BeginsAt(s, sub, i) == i + Len(sub) - 1 <= Len(s) /\ SubSeq(s, i, i + Len(sub) - 1) = sub

\* str.find(sub, start): the first index at or after `start` where sub
\* begins, 0 if none
FindStr(s, sub, start) ==
    IF \E i \in start..Len(s) : BeginsAt(s, sub, i)
    THEN CHOOSE i \in start..Len(s) :
             BeginsAt(s, sub, i) /\ \A j \in start..(i - 1) : ~BeginsAt(s, sub, j)
    ELSE 0

RECURSIVE SubAfterTag(_, _, _, _, _)
\* re.sub(r'(<tag[^>]*>)', r'\1' + inject, html, flags=re.IGNORECASE), from
\* index `from` on; lower is html.lower()
SubAfterTag(html, lower, tag, inject, from) ==
    LET i == FindStr(lower, tag, from)
        j == IF i = 0 THEN 0 ELSE FindFrom(html, ">", i + Len(tag))
    IN  IF j = 0 THEN From(html, from)
        ELSE SubSeq(html, from, j) \o inject \o SubAfterTag(html, lower, tag, inject, j + 1)

\* lines 313-328: the bridge script after <head>, or in a new head after <html>
InjectScript(html) ==
    IF HasSubstring(Lower(html), "<head>")
    THEN SubAfterTag(html, Lower(html), "<head", postmessage_script, 1)
    ELSE IF HasSubstring(Lower(html), "<html>")
    THEN SubAfterTag(html, Lower(html), "<html",
                     "<head>" \o postmessage_script \o "</head>", 1)
    ELSE html

\* a base tag for every document with a head, whether it has one or not
InjectBaseAlways(html, base_domain) ==
    IF HasSubstring(Lower(html), "<head>")
    THEN SubAfterTag(html, Lower(html), "<head",
                     "<base href=\"" \o base_domain \o "/\">", 1)
    ELSE html

\* lines 330-337: the base tag after <head>, unless the document has one
InjectBase(html, base_domain) ==
    IF HasSubstring(Lower(html), "<head>") /\ ~HasSubstring(Lower(html), "<base")
    THEN SubAfterTag(html, Lower(html), "<head",
                     "<base href=\"" \o base_domain \o "/\">", 1)
    ELSE html

\* the result of a re.sub whose function may raise: the text, or raised
Subbed(raised, text) == [raised |-> raised, text |-> text]

Then(a, b) == Subbed(a.raised \/ b.raised, a.text \o b.text)

Quotes == {"\"", "'"}

RECURSIVE SkipSpace(_, _)
\* \s*
SkipSpace(s, i) ==
    IF i <= Len(s) /\ At(s, i) \in Whitespace THEN SkipSpace(s, i + 1) ELSE i

\* (?:src|href) at index i: the length of the name, 0 if neither
AttrNameLen(lower, i) ==
    IF BeginsAt(lower, "src", i) THEN 3
    ELSE IF BeginsAt(lower, "href", i) THEN 4
    ELSE 0

\* =\s*["'] with the = at index eq: the index of the quote, 0 if no match
AttrQuote(html, eq) ==
    IF eq <= Len(html) /\ At(html, eq) = "="
          /\ SkipSpace(html, eq + 1) <= Len(html)
          /\ At(html, SkipSpace(html, eq + 1)) \in Quotes
    THEN SkipSpace(html, eq + 1)
    ELSE 0

\* ([^"']+)(["']) after the quote at q: the index of the closing quote, 0 if
\* the value is empty or not closed
AttrClose(html, q) ==
    IF FindAnyFrom(html, Quotes, q + 1) > q + 1
    THEN FindAnyFrom(html, Quotes, q + 1) ELSE 0

\* the whole pattern at index i: the index of the closing quote, 0 if no match
AttrMatch(html, lower, i) ==
    IF AttrNameLen(lower, i) = 0 THEN 0
    ELSE IF AttrQuote(html, SkipSpace(html, i + AttrNameLen(lower, i))) = 0 THEN 0
    ELSE AttrClose(html, AttrQuote(html, SkipSpace(html, i + AttrNameLen(lower, i))))

\* the first index at or after `from` where the pattern matches, 0 if none
NextAttr(html, lower, from) ==
    IF \E i \in from..Len(html) : AttrMatch(html, lower, i) # 0
    THEN CHOOSE i \in from..Len(html) :
             AttrMatch(html, lower, i) # 0
                 /\ \A j \in from..(i - 1) : AttrMatch(html, lower, j) = 0
    ELSE 0

\* lines 341-349, with match.group(0), group(1) and group(2)
rewrite_absolute_url(match, attr_name, url, base_url) ==
    IF StartsWith(url, "http://") \/ StartsWith(url, "https://") \/ StartsWith(url, "//")
    THEN Subbed(urljoin(base_url, url).raised,
                attr_name \o "=\"" \o urljoin(base_url, url).value \o "\"")
    ELSE Subbed(FALSE, match)

\* the match at index i replaced, then the rest of the document
SubAttrMatch(html, lower, base_url, from, i, q, r, rest) ==
    Then(Subbed(FALSE, SubSeq(html, from, i - 1)),
         Then(rewrite_absolute_url(SubSeq(html, i, r), SubSeq(html, i, q),
                                   SubSeq(html, q + 1, r - 1), base_url),
              rest))

RECURSIVE SubAttrs(_, _, _, _)
\* lines 352-357: re.sub of the src/href pattern from index `from` on
SubAttrs(html, lower, base_url, from) ==
    LET i == NextAttr(html, lower, from)
        r == IF i = 0 THEN 0 ELSE AttrMatch(html, lower, i)
    IN  IF i = 0 THEN Subbed(FALSE, From(html, from))
        ELSE SubAttrMatch(html, lower, base_url, from, i,
                          AttrQuote(html, SkipSpace(html, i + AttrNameLen(lower, i))), r,
                          SubAttrs(html, lower, base_url, r + 1))

RECURSIVE StripQuotes(_)
\* str.strip('\'"')
StripQuotes(s) ==
    IF s # "" /\ At(s, 1) \in Quotes THEN StripQuotes(From(s, 2))
    ELSE IF s # "" /\ At(s, Len(s)) \in Quotes THEN StripQuotes(SubSeq(s, 1, Len(s) - 1))
    ELSE s

\* lines 360-365, with match.group(0) and the stripped group(1)
rewrite_css_url(match, url, base_url) ==
    IF ~StartsWith(url, "data:")
    THEN Subbed(urljoin(base_url, url).raised,
                "url(\"" \o urljoin(base_url, url).value \o "\")")
    ELSE Subbed(FALSE, match)

RECURSIVE SubCssUrls(_, _, _, _)
\* lines 367-372: re.sub of url\(([^\)]+)\) from index `from` on
SubCssUrls(html, lower, base_url, from) ==
    LET i == FindStr(lower, "url(", from)
        c == IF i = 0 THEN 0 ELSE FindFrom(html, ")", i + 4)
    IN  IF c = 0 THEN Subbed(FALSE, From(html, from))
        ELSE IF c = i + 4
        THEN Then(Subbed(FALSE, SubSeq(html, from, i)),
                  SubCssUrls(html, lower, base_url, i + 1))
        ELSE Then(Subbed(FALSE, SubSeq(html, from, i - 1)),
                  Then(rewrite_css_url(SubSeq(html, i, c),
                                       StripQuotes(SubSeq(html, i + 4, c - 1)), base_url),
                       SubCssUrls(html, lower, base_url, c + 1)))

\* lines 367-378: html is assigned the result of the sub unless it raised
AfterCss(html, css) == IF css.raised THEN html ELSE css.text

\* lines 352-378
AfterAttrs(html, attrs, base_url) ==
    IF attrs.raised THEN html
    ELSE AfterCss(attrs.text, SubCssUrls(attrs.text, Lower(attrs.text), base_url, 1))

\* lines 339-378, html being the document after the injections
RewriteUrls(html, base_url) ==
    AfterAttrs(html, SubAttrs(html, Lower(html), base_url, 1), base_url)

\* lines 267-337: the document after the two injections
Injected(html, parsed_base) ==
    InjectBase(InjectScript(html), parsed_base.scheme \o "://" \o parsed_base.netloc)

\* lines 266-378, parsed_base being urlparse(base_url)
RewriteParsed(html, base_url, parsed_base) ==
    IF parsed_base.error THEN html
    ELSE RewriteUrls(Injected(html, parsed_base), base_url)

\* one of the two substitutions over the injected document raises
UrlsRaised(html, attrs, base_url) ==
    attrs.raised \/ SubCssUrls(attrs.text, Lower(attrs.text), base_url, 1).raised

\* the try block of lines 266-374 is left through `except Exception` (376)
RewriteRaised(html, base_url) ==
    \/ urlparse(base_url).error
    \/ UrlsRaised(Injected(html, urlparse(base_url)),
                  SubAttrs(Injected(html, urlparse(base_url)),
                           Lower(Injected(html, urlparse(base_url))), base_url, 1),
                  base_url)

rewrite_html_content(html, base_url, session_token) ==
    RewriteParsed(html, base_url, urlparse(base_url))

(***************************************************************************)
(* normalize_url (app.py 163-208).  The result is the returned string, or  *)
(* raised = TRUE when urlparse or the port property raises ValueError.     *)
(***************************************************************************)
common_domains == {"google", "microsoft", "facebook", "amazon", "apple"}

\* lines 192-208: scheme, netloc with the port, path of at least "/"
NormalizeBuild(parsed, port, hostname) ==
    IF parsed.error \/ port.raises
    THEN [raised |-> TRUE, value |-> ""]
    ELSE [raised |-> FALSE,
          value  |-> urlunparse(IF parsed.scheme # "http" THEN "https" ELSE "http",
                                IF port.present /\ port.value # 0
                                THEN hostname \o ":" \o IntToStr(port.value)
                                ELSE hostname,
                                IF parsed.path # "" THEN parsed.path ELSE "/",
                                parsed.params, parsed.query, parsed.fragment)]

\* lines 184-190: www. for a two-label host of a common domain
AddsWww(hostname, parts) ==
    /\ hostname # ""
    /\ Contains(hostname, ".")
    /\ Len(parts) = 2
    /\ ~StartsWith(hostname, "www.")
    /\ Lower(parts[1]) \in common_domains

NormalizeHost(parsed, port, hostname) ==
    NormalizeBuild(parsed, port,
                   IF AddsWww(hostname, Split(hostname, "."))
                   THEN "www." \o hostname ELSE hostname)

\* lines 177-181: parsed.hostname or parsed.netloc, else the netloc up to ':'
NormalizeParsed(parsed, parsed_hostname) ==
    NormalizeHost(parsed, Port(parsed),
                  IF parsed_hostname # "" THEN parsed_hostname
                  ELSE IF parsed.netloc # "" THEN parsed.netloc
                  ELSE Split(parsed.netloc, ":")[1])

NormalizeParse(parsed) == NormalizeParsed(parsed, Hostname(parsed))

\* lines 170-176: strip, default to https://, parse
NormalizeStripped(url) ==
    NormalizeParse(urlparse(IF StartsWith(url, "http://") \/ StartsWith(url, "https://")
                            THEN url ELSE "https://" \o url))

normalize_url(url) == NormalizeStripped(Strip(url))

(***************************************************************************)
(* validate_url (app.py 211-248) and its block lists (122-131).            *)
(***************************************************************************)
\* ipaddress.ip_network: the base address as its high and low 16 bits
IPv4Net(a, b, c, d, prefix) ==
    [hi |-> a * 256 + b, lo |-> c * 256 + d, prefix |-> prefix]

BLOCKED_IP_RANGES ==
    << IPv4Net(127, 0, 0, 0, 8),
       IPv4Net(10, 0, 0, 0, 8),
       IPv4Net(172, 16, 0, 0, 12),
       IPv4Net(192, 168, 0, 0, 16),
       IPv4Net(169, 254, 0, 0, 16),
       IPv4Net(0, 0, 0, 0, 8) >>

BLOCKED_DOMAINS == <<".local", ".internal", ".corp", ".localhost">>

\* re.match(r'^\d{1,3}\.\d{1,3}\.\d{1,3}\.\d{1,3}$', hostname), on the parts
\* of hostname between dots
MatchesDottedQuad(parts) ==
    /\ Len(parts) = 4
    /\ \A i \in 1..4 : AllDigits(parts[i]) /\ Len(parts[i]) <= 3

\* ipaddress.ip_address(hostname) for a dotted quad: ok is false for the
\* ValueError of an octet above 255 or written with a leading zero
ip_address(parts) ==
    IF \A i \in 1..4 : /\ ToInt(parts[i]) <= 255
                       /\ (Len(parts[i]) > 1 => At(parts[i], 1) # "0")
    THEN [ok |-> TRUE,
          hi |-> ToInt(parts[1]) * 256 + ToInt(parts[2]),
          lo |-> ToInt(parts[3]) * 256 + ToInt(parts[4])]
    ELSE [ok |-> FALSE, hi |-> 0, lo |-> 0]

RECURSIVE Pow2(_)
Pow2(n) == IF n = 0 THEN 1 ELSE 2 * Pow2(n - 1)

\* `ip in blocked_range`: the first `prefix` bits of the 32 agree
InNetwork(ip, net) ==
    IF net.prefix <= 16
    THEN ip.hi \div Pow2(16 - net.prefix) = net.hi \div Pow2(16 - net.prefix)
    ELSE /\ ip.hi = net.hi
         /\ ip.lo \div Pow2(32 - net.prefix) = net.lo \div Pow2(32 - net.prefix)

\* lines 237-240: the address parses and lies in a blocked range
InBlockedRange(ip) ==
    ip.ok /\ \E i \in 1..Len(BLOCKED_IP_RANGES) : InNetwork(ip, BLOCKED_IP_RANGES[i])

\* lines 234-244
ValidateIp(parts) ==
    IF MatchesDottedQuad(parts) /\ InBlockedRange(ip_address(parts))
    THEN [valid |-> FALSE,
          reason |-> "Access to private/internal IP addresses is not allowed"]
    ELSE [valid |-> TRUE, reason |-> ""]

\* lines 225-232; blocked is the indices of the suffixes the host ends with
ValidateNames(hostname, hostname_lower, blocked) ==
    IF blocked # {}
    THEN [valid |-> FALSE,
          reason |-> "Access to "
                     \o BLOCKED_DOMAINS[CHOOSE i \in blocked : \A j \in blocked : i <= j]
                     \o " domains is not allowed"]
    ELSE IF hostname_lower \in {"localhost", "0.0.0.0"}
    THEN [valid |-> FALSE, reason |-> "Access to localhost is not allowed"]
    ELSE ValidateIp(Split(hostname, "."))

ValidateLower(hostname, hostname_lower) ==
    ValidateNames(hostname, hostname_lower,
                  {i \in 1..Len(BLOCKED_DOMAINS) :
                      EndsWith(hostname_lower, BLOCKED_DOMAINS[i])})

\* lines 219-223
ValidateHostname(hostname) ==
    IF hostname = ""
    THEN [valid |-> FALSE, reason |-> "Invalid URL: No hostname"]
    ELSE ValidateLower(hostname, Lower(hostname))

HostnameOrNetloc(parsed, parsed_hostname) ==
    IF parsed_hostname # "" THEN parsed_hostname ELSE parsed.netloc

\* lines 214-217 and the except of 246-248
ValidateParsed(parsed) ==
    IF parsed.error
    THEN [valid |-> FALSE, reason |-> "Invalid URL format: Invalid IPv6 URL"]
    ELSE IF parsed.scheme \notin {"http", "https"}
    THEN [valid |-> FALSE, reason |-> "Invalid protocol: " \o parsed.scheme]
    ELSE ValidateHostname(HostnameOrNetloc(parsed, Hostname(parsed)))

validate_url(url) == ValidateParsed(urlparse(url))

(***************************************************************************)
(* urllib.parse.unquote (app.py 756): %XX escapes of printable ASCII are   *)
(* replaced by the character; anything else is left as written.  Escapes   *)
(* of other bytes do not occur in the inputs modelled.                     *)
(***************************************************************************)
HexDigits == "0123456789abcdef"

HexVal(c) == Find(HexDigits, LowerChar(c)) - 1

IsHex(c) == Contains(HexDigits, LowerChar(c))

\* the printable ASCII characters by code; the double quote (34), the
\* backslash (92) and the backtick (96) are left out and stay escaped
AsciiFrom35 == "#$%&'()" \o "*+,-./0123456789:;<=>?@ABCDEFGHIJKLMNOPQRSTUVWXYZ["

AsciiFrom97 == "abcdefghijklmnopqrstuvwxyz{|}~"

Decodable(code) == code \in (32..126) \ {34, 92, 96}

AsciiChar(code) ==
    IF code = 32 THEN " "
    ELSE IF code = 33 THEN "!"
    ELSE IF code \in 35..91 THEN At(AsciiFrom35, code - 34)
    ELSE IF code \in 93..95 THEN At("]^_", code - 92)
    ELSE At(AsciiFrom97, code - 96)

RECURSIVE unquote(_)
unquote(s) ==
    IF s = "" THEN ""
    ELSE IF /\ At(s, 1) = "%"
            /\ Len(s) >= 3
            /\ IsHex(At(s, 2)) /\ IsHex(At(s, 3))
            /\ Decodable(16 * HexVal(At(s, 2)) + HexVal(At(s, 3)))
    THEN AsciiChar(16 * HexVal(At(s, 2)) + HexVal(At(s, 3)))
         \o unquote(From(s, 4))
    ELSE At(s, 1) \o unquote(From(s, 2))

(***************************************************************************)
(* The URL decision of each entry point: the URL it would fetch and        *)
(* whether validate_url accepts it.                                        *)
(***************************************************************************)
Decision(raised, target, v) ==
    [raised |-> raised, target |-> target, valid |-> v.valid, reason |-> v.reason]

\* a /proxy that fetches whatever normalize_url returns
ProxyValidateSkipped(n) ==
    IF n.raised
    THEN Decision(TRUE, "", [valid |-> FALSE, reason |-> ""])
    ELSE Decision(FALSE, n.value, [valid |-> TRUE, reason |-> ""])

\* proxy_request, app.py 621-633: normalize_url, then validate_url.  raised
\* is the ValueError that normalize_url lets escape to the handler's except.
ProxyValidate(n) ==
    IF n.raised
    THEN Decision(TRUE, "", [valid |-> FALSE, reason |-> ""])
    ELSE Decision(FALSE, n.value, validate_url(n.value))

ProxyUrlDecision(original_url) == ProxyValidate(normalize_url(original_url))

\* proxy_resource, app.py 755-761: unquote, then validate_url
ResourceValidate(resource_url) == Decision(FALSE, resource_url, validate_url(resource_url))

ResourceUrlDecision(resource_url) == ResourceValidate(unquote(resource_url))

(***************************************************************************)
(* Values.  A dict is a function on its keys; NoValue is an absent JSON    *)
(* field or query parameter, and None.                                     *)
(***************************************************************************)
NoValue == "<none>"

EmptyDict == [n \in {} |-> ""]

\* an entry point that has not decided on a URL
NoDecision == Decision(FALSE, NoValue, [valid |-> FALSE, reason |-> NoValue])

\* dict.update
DictUpdate(d, new) ==
    [n \in DOMAIN d \cup DOMAIN new |-> IF n \in DOMAIN new THEN new[n] ELSE d[n]]

(***************************************************************************)
(* Session cookie jar (app.py 155-157, 525-534).                           *)
(***************************************************************************)
get_session_cookies(jar, session_token) ==
    IF session_token \in DOMAIN jar THEN jar[session_token] ELSE EmptyDict

\* a read that creates the session it does not find (dict.setdefault)
JarAfterReadCreating(jar, session_token) ==
    [t \in DOMAIN jar \cup {session_token} |->
        IF t \in DOMAIN jar THEN jar[t] ELSE EmptyDict]

\* line 527 reads with dict.get: the read creates no session and leaves the
\* jar as it is
JarAfterRead(jar, session_token) == jar

\* line 532: `session_token not in session_cookies`
SessionAbsent(jar, session_token) == session_token \notin DOMAIN jar

\* line 533: `session_cookies[session_token] = {}`
CreateSession(jar, session_token) ==
    [t \in DOMAIN jar \cup {session_token} |->
        IF t = session_token THEN EmptyDict ELSE jar[t]]

\* an update that keeps the value a name already has
UpdateSessionKeepingOld(jar, session_token, cookies) ==
    [jar EXCEPT ![session_token] = DictUpdate(cookies, @)]

\* line 534: `session_cookies[session_token].update(cookies)`
UpdateSession(jar, session_token, cookies) ==
    [jar EXCEPT ![session_token] = DictUpdate(@, cookies)]

\* one uninterrupted call of set_session_cookies
set_session_cookies(jar, session_token, cookies) ==
    UpdateSession(IF SessionAbsent(jar, session_token)
                  THEN CreateSession(jar, session_token)
                  ELSE jar,
                  session_token, cookies)

(***************************************************************************)
(* Audit log (app.py 119, 560-578).                                        *)
(***************************************************************************)
AUDIT_LOG_MAX == 10000

AuditEntry(timestamp, event_type, details, ip, user_id) ==
    [timestamp  |-> timestamp,
     event_type |-> event_type,
     ip_address |-> ip,
     user_id    |-> user_id,
     details    |-> details]

\* an eviction that starts one entry late
log_audit_late(log, entry) ==
    Append(IF Len(log) > AUDIT_LOG_MAX THEN Tail(log) ELSE log, entry)

\* lines 573-577: drop the oldest entry of a full log, then append
log_audit(log, entry) ==
    Append(IF Len(log) >= AUDIT_LOG_MAX THEN Tail(log) ELSE log, entry)

(***************************************************************************)
(* Response bodies.  A body is described by what the pipeline looks at:    *)
(* its length, whether its first 100 bytes pass the "already text" test of *)
(* decompress_content, which coding the bytes are a valid stream of, and   *)
(* the length and text test of the payload that coding carries.            *)
(***************************************************************************)
MAX_RESPONSE_SIZE == 50 * 1024 * 1024

Body(len, textlike, coding, plain_len, plain_textlike) ==
    [len |-> len, textlike |-> textlike, coding |-> coding,
     plain_len |-> plain_len, plain_textlike |-> plain_textlike]

PlainBody(len, textlike) == Body(len, textlike, "identity", len, textlike)

\* no body at all (a response that carries no content)
NoContent == Body(0, FALSE, "absent", 0, FALSE)

\* the payload a decoder returns for a stream it accepts
Inflate(content) == PlainBody(content.plain_len, content.plain_textlike)

\* stands for an exception leaving decompress_content
DecodeError == Body(0, FALSE, "error", 0, FALSE)

\* a decompress_content whose decoders' exceptions are not caught
decompress_content_unguarded(content, encoding, brotli) ==
    IF encoding = "" THEN content
    ELSE IF content.len > 0 /\ content.textlike THEN content
    ELSE IF HasSubstring(Lower(encoding), "gzip")
    THEN IF content.coding = "gzip" THEN Inflate(content) ELSE DecodeError
    ELSE IF HasSubstring(Lower(encoding), "deflate")
    THEN IF content.coding \in {"zlib", "deflate"} THEN Inflate(content) ELSE DecodeError
    ELSE IF HasSubstring(Lower(encoding), "br")
    THEN IF brotli /\ content.coding = "br" THEN Inflate(content) ELSE DecodeError
    ELSE content

\* decompress_content (app.py 416-487); brotli is whether `import brotli` works
decompress_content(content, encoding, brotli) ==
    LET encoding_lower == Lower(encoding)
    IN  IF encoding = "" THEN content
        ELSE IF content.len > 0 /\ content.textlike THEN content
        ELSE IF HasSubstring(encoding_lower, "gzip")
        THEN IF content.coding = "gzip" THEN Inflate(content) ELSE content
        ELSE IF HasSubstring(encoding_lower, "deflate")
        THEN IF content.coding \in {"zlib", "deflate"} THEN Inflate(content) ELSE content
        ELSE IF HasSubstring(encoding_lower, "br")
        THEN IF brotli /\ content.coding = "br" THEN Inflate(content) ELSE content
        ELSE content

(***************************************************************************)
(* Response headers: a dict of header name to value.                       *)
(***************************************************************************)
\* CaseInsensitiveDict.get(name, default) for a lower-case name
HeaderGet(headers, name, default) ==
    IF \E k \in DOMAIN headers : Lower(k) = name
    THEN headers[CHOOSE k \in DOMAIN headers : Lower(k) = name]
    ELSE default

(***************************************************************************)
(* detect_encoding (app.py 381-413).  The content is the number of bytes   *)
(* before its meta tag (they hold no tag), the text of the tag, "" if it   *)
(* has none, and what chardet.detect answers for its first 10000 bytes.    *)
(***************************************************************************)
Content(pad, meta, guess) == [pad |-> pad, meta |-> meta, guess |-> guess]

\* chardet.detect raised
ChardetRaises == "<raises>"

\* the maximal run of characters outside `stops` that starts at index i
RunEnd(s, stops, i) ==
    IF FindAnyFrom(s, stops, i) = 0 THEN Len(s) ELSE FindAnyFrom(s, stops, i) - 1

\* line 385: charset=([^\s;]+) matches at index i
HeaderCharsetAt(content_type, i) ==
    /\ BeginsAt(content_type, "charset=", i)
    /\ i + 8 <= Len(content_type)
    /\ At(content_type, i + 8) \notin Whitespace \cup {";"}

\* lines 385-387: re.search, group 1 of the leftmost match without its
\* quotes, NoValue if there is no match
HeaderCharset(content_type) ==
    IF \E i \in 1..Len(content_type) : HeaderCharsetAt(content_type, i)
    THEN StripQuotes(
             SubSeq(content_type,
                    8 + (CHOOSE i \in 1..Len(content_type) :
                             /\ HeaderCharsetAt(content_type, i)
                             /\ \A j \in 1..(i - 1) : ~HeaderCharsetAt(content_type, j)),
                    RunEnd(content_type, Whitespace \cup {";"},
                           8 + (CHOOSE i \in 1..Len(content_type) :
                                    /\ HeaderCharsetAt(content_type, i)
                                    /\ \A j \in 1..(i - 1) : ~HeaderCharsetAt(content_type, j)))))
    ELSE NoValue

\* the characters that end the charset of a meta tag: [^\s"'/>]
MetaStops == Whitespace \cup {"\"", "'", "/", ">"}

\* ["']? at index i: the index after the optional quote
AfterQuote(s, i) == IF i <= Len(s) /\ At(s, i) \in Quotes THEN i + 1 ELSE i

\* charset\s*=\s*["']?([^\s"'/>]+) with charset at index j: the index where
\* group 1 starts, 0 if there is no match
MetaValueAt(s, lower, j) ==
    IF /\ BeginsAt(lower, "charset", j)
       /\ SkipSpace(s, j + 7) <= Len(s)
       /\ At(s, SkipSpace(s, j + 7)) = "="
       /\ AfterQuote(s, SkipSpace(s, SkipSpace(s, j + 7) + 1)) <= Len(s)
       /\ At(s, AfterQuote(s, SkipSpace(s, SkipSpace(s, j + 7) + 1))) \notin MetaStops
    THEN AfterQuote(s, SkipSpace(s, SkipSpace(s, j + 7) + 1))
    ELSE 0

\* <meta[^>]+ at index i with charset... at index j
MetaMatch(s, lower, i, j) ==
    /\ BeginsAt(lower, "<meta", i)
    /\ j >= i + 6
    /\ \A k \in (i + 5)..(j - 1) : At(s, k) # ">"
    /\ MetaValueAt(s, lower, j) # 0

\* the last index at which the greedy [^>]+ of the tag at index i lets the
\* rest of the pattern match
MetaGreedy(s, lower, i) ==
    CHOOSE j \in 1..Len(s) :
        MetaMatch(s, lower, i, j) /\ \A k \in (j + 1)..Len(s) : ~MetaMatch(s, lower, i, k)

MetaMatchesAt(s, lower, i) == \E j \in 1..Len(s) : MetaMatch(s, lower, i, j)

\* the leftmost index at which the pattern matches
MetaLeftmost(s, lower) ==
    CHOOSE i \in 1..Len(s) :
        MetaMatchesAt(s, lower, i) /\ \A k \in 1..(i - 1) : ~MetaMatchesAt(s, lower, k)

\* group 1 of the match whose group starts at index v
MetaGroup(s, v) == SubSeq(s, v, RunEnd(s, MetaStops, v))

\* lines 394-396: re.search with re.IGNORECASE, group 1 or NoValue
MetaCharset(content_str) ==
    IF \E i \in 1..Len(content_str) : MetaMatchesAt(content_str, Lower(content_str), i)
    THEN MetaGroup(content_str,
                   MetaValueAt(content_str, Lower(content_str),
                               MetaGreedy(content_str, Lower(content_str),
                                          MetaLeftmost(content_str, Lower(content_str)))))
    ELSE NoValue

\* line 393: what content[:2048] holds of the meta tag
First2048(content) ==
    IF content.pad >= 2048 THEN ""
    ELSE IF content.pad + Len(content.meta) <= 2048 THEN content.meta
    ELSE SubSeq(content.meta, 1, 2048 - content.pad)

\* lines 402-413: chardet's encoding if it names one, else utf-8
ChardetOrDefault(guess) == IF guess \in {NoValue, ChardetRaises} THEN "utf-8" ELSE guess

\* a detect_encoding that looks at the meta tag before the header
detect_encoding_meta_first(content, headers) ==
    IF MetaCharset(First2048(content)) # NoValue THEN MetaCharset(First2048(content))
    ELSE IF HeaderCharset(Lower(HeaderGet(headers, "content-type", ""))) # NoValue
    THEN HeaderCharset(Lower(HeaderGet(headers, "content-type", "")))
    ELSE ChardetOrDefault(content.guess)

detect_encoding(content, headers) ==
    IF HeaderCharset(Lower(HeaderGet(headers, "content-type", ""))) # NoValue
    THEN HeaderCharset(Lower(HeaderGet(headers, "content-type", "")))
    ELSE IF MetaCharset(First2048(content)) # NoValue THEN MetaCharset(First2048(content))
    ELSE ChardetOrDefault(content.guess)

blocked_headers ==
    { "x-frame-options", "content-security-policy",
      "content-security-policy-report-only", "x-content-type-options",
      "x-xss-protection", "cross-origin-embedder-policy",
      "cross-origin-opener-policy", "cross-origin-resource-policy",
      "set-cookie", "set-cookie2", "content-encoding", "transfer-encoding",
      "content-length", "strict-transport-security", "public-key-pins",
      "expect-ct", "referrer-policy", "permissions-policy", "feature-policy" }

\* a filter that compares the key as it is spelled
strip_security_headers_cased(headers) ==
    [k \in {k \in DOMAIN headers : k \notin blocked_headers} |-> headers[k]]

\* strip_security_headers (app.py 490-522)
strip_security_headers(headers) ==
    [k \in {k \in DOMAIN headers : Lower(k) \notin blocked_headers} |-> headers[k]]

(***************************************************************************)
(* State.                                                                  *)
(***************************************************************************)
VARIABLES
    session_cookies,  \* app.py 157: session token -> cookie dict
    audit_log,        \* app.py 119: the list of audit entries
    audit_history,    \* history: every entry log_audit was ever given, in order
    clock,            \* datetime.utcnow(), as the count of entries stamped so far
    brotli_installed, \* whether `import brotli` succeeds in this deployment
    pc,               \* per handler: where its request stands
    req,              \* per handler: the request it received
    loc,              \* per handler: the locals of its entry point
    resp,             \* per handler: the response it returned
    upstream,         \* per handler: the upstream requests it issued, in order,
                      \* each with the exception it raised, if any, and the
                      \* URL it ended at after following redirects
    touched,          \* history: per handler, whether a step of it changed the jar
    wrote,            \* history: per handler, the set_session_cookies call it completed
    stages,           \* history: per handler, the stages of proxy_request it ran, in order
    merges,           \* history: the set_session_cookies calls made, in order
    u_in,             \* a URL string under test
    u_host,           \* the literal host u_in was composed with ("" if none)
    u_proxy,          \* the decision of /proxy for u_in
    u_resource,       \* the decision of /resource for u_in
    fn_call,          \* a call of one function on its own: its name and arguments
    fn_ret            \* what that call returned

vars == << session_cookies, audit_log, audit_history, clock, brotli_installed,
           pc, req, loc, resp, upstream, touched, wrote, stages, merges,
           u_in, u_host, u_proxy, u_resource, fn_call, fn_ret >>

sharedVars == << session_cookies, audit_log, audit_history, clock >>

handlerVars == << pc, req, loc, resp, upstream, touched, wrote, stages >>

urlVars == << u_in, u_host, u_proxy, u_resource >>

fnVars == << fn_call, fn_ret >>

(***************************************************************************)
(* Bounds and inputs.                                                      *)
(***************************************************************************)
\* concurrent request handlers (threads), each serving one request
NumHandlers == 2

Handlers == 1..NumHandlers

\* get_remote_address()
CLIENT_IP == "203.0.113.9"

\* a request whose body (or query string, for /resource) parses
Request(endpoint, url, session) ==
    [endpoint |-> endpoint, url |-> url, session |-> session, body |-> "parsed"]

\* a POST /proxy whose body is not JSON: request.get_json() raises
UnparsableRequest ==
    [endpoint |-> "proxy", url |-> NoValue, session |-> NoValue, body |-> "unparsable"]

\* the requests the handlers receive: a public URL, the same without its
\* scheme, a private address, and a request that names no URL; with a
\* session id or without (the session is then "anonymous"); and a /proxy
\* request whose body does not parse
Requests ==
    { UnparsableRequest,
      Request("proxy", "http://example.com/", "s1"),
      Request("proxy", "example.com", NoValue),
      Request("proxy", "http://10.0.0.5/", "s1"),
      Request("proxy", NoValue, NoValue),
      Request("resource", "http://example.com/", "s1"),
      Request("resource", "example.com", "s1"),
      Request("resource", "http://10.0.0.5/", NoValue),
      Request("resource", NoValue, "s1") }

NoRequest == [endpoint |-> "", url |-> NoValue, session |-> NoValue, body |-> ""]

\* the exception classes of requests that a failed upstream request raises,
\* each with itself and the classes it inherits from
ExceptionBases ==
    [ ConnectTimeout  |-> {"ConnectTimeout", "ConnectionError", "Timeout",
                           "RequestException", "Exception"},
      ReadTimeout     |-> {"ReadTimeout", "Timeout", "RequestException", "Exception"},
      SSLError        |-> {"SSLError", "ConnectionError", "RequestException", "Exception"},
      ConnectionError |-> {"ConnectionError", "RequestException", "Exception"} ]

\* what requests raises for a failed upstream request
FetchErrors == DOMAIN ExceptionBases

\* isinstance(exception, class), as an except clause tests it
IsInstance(kind, class) == class \in ExceptionBases[kind]

UpstreamResponse(status, headers, content, cookies, url) ==
    [status |-> status, headers |-> headers, content |-> content,
     cookies |-> cookies, url |-> url]

NoUpstream == UpstreamResponse(0, EmptyDict, NoContent, EmptyDict, "")

HtmlHeaders == ("Content-Type" :> "text/html; charset=utf-8") @@ ("X-Frame-Options" :> "DENY")

GzipHeaders == HtmlHeaders @@ ("Content-Encoding" :> "gzip")

BinaryHeaders == ("content-type" :> "application/octet-stream")

\* a stylesheet, its rules holding url(...) references
CssHeaders == ("Content-Type" :> "text/css")

\* where a public server may redirect to: the metadata service of the host
\* the proxy runs on
REDIRECT_TARGET == "http://169.254.169.254/latest/meta-data/"

\* the site as served over TLS
TLS_SITE == "https://example.com/"

\* the responses the upstream server may give to a request for url.  Over
\* plain http: a small page that sets a cookie, a gzip stream that inflates
\* to exactly the size limit, one that inflates to a byte more and sets a
\* cookie, a plain body of a byte more than the limit, and a stylesheet.
\* Over TLS: the small page, or a redirect, which requests follows
\* (allow_redirects=True): the response is then the page at the redirect's
\* target, and its url says so.
UpstreamResponses(url) ==
    IF url = TLS_SITE
    THEN { UpstreamResponse(200, HtmlHeaders, PlainBody(1024, TRUE), "a" :> "1", url),
           UpstreamResponse(200, HtmlHeaders, PlainBody(1024, TRUE), EmptyDict,
                            REDIRECT_TARGET) }
    ELSE { UpstreamResponse(200, HtmlHeaders, PlainBody(1024, TRUE), "a" :> "1", url),
           UpstreamResponse(200, GzipHeaders,
                            Body(1024, FALSE, "gzip", MAX_RESPONSE_SIZE, TRUE),
                            EmptyDict, url),
           UpstreamResponse(200, GzipHeaders,
                            Body(1024, FALSE, "gzip", MAX_RESPONSE_SIZE + 1, TRUE),
                            "b" :> "2", url),
           UpstreamResponse(200, BinaryHeaders, PlainBody(MAX_RESPONSE_SIZE + 1, FALSE),
                            EmptyDict, url),
           UpstreamResponse(200, CssHeaders, PlainBody(1024, TRUE), EmptyDict, url) }

\* no function has been called on its own, and none has returned
NothingCalled == [fn |-> ""]

NotReturned == [stage |-> 0]

\* a call set_session_cookies(session_token, cookies)
JarCall(session_token, cookies) == [session |-> session_token, cookies |-> cookies]

NoCall == JarCall(NoValue, EmptyDict)

NoLocals == [target_url |-> "", session_id |-> "", response |-> NoUpstream]

\* what the client gets back
ClientResponse(status, success, error, blocked, content, rewritten, headers, content_type, final_url) ==
    [status |-> status, success |-> success, error |-> error, blocked |-> blocked,
     content |-> content, rewritten |-> rewritten, headers |-> headers,
     content_type |-> content_type, final_url |-> final_url]

\* a JSON error body: no content, no upstream headers
ErrorResponse(status, success, error, blocked) ==
    ClientResponse(status, success, error, blocked, NoContent, FALSE, EmptyDict, "", "")

NoResponse == ErrorResponse(0, NoValue, "", FALSE)

(***************************************************************************)
(* The pure part of each entry point after the upstream response arrived.  *)
(***************************************************************************)
\* lines 667-670 and 781-784: decompress when a Content-Encoding is named
Decompressed(content, content_encoding, brotli) ==
    IF content_encoding # ""
    THEN decompress_content(content, content_encoding, brotli)
    ELSE content

\* proxy_request, app.py 673-709: size check, decode, rewrite (text/html
\* only), strip headers, respond
ProxyRespond(response, content, content_type) ==
    IF content.len > MAX_RESPONSE_SIZE
    THEN ErrorResponse(413, "false", "Response too large. Maximum size is 50.0MB", FALSE)
    ELSE ClientResponse(200, "true", "", FALSE, content,
                        HasSubstring(content_type, "text/html"),
                        strip_security_headers(response.headers),
                        content_type, response.url)

\* a pipeline that applies the size limit to the bytes as received
ProxyPipelineRawSize(response, brotli) ==
    IF response.content.len > MAX_RESPONSE_SIZE
    THEN ErrorResponse(413, "false", "Response too large. Maximum size is 50.0MB", FALSE)
    ELSE ClientResponse(200, "true", "", FALSE,
                        Decompressed(response.content,
                                     Lower(HeaderGet(response.headers, "content-encoding", "")),
                                     brotli),
                        HasSubstring(Lower(HeaderGet(response.headers, "content-type", "")),
                                     "text/html"),
                        strip_security_headers(response.headers),
                        Lower(HeaderGet(response.headers, "content-type", "")),
                        response.url)

\* proxy_request, app.py 662-709
ProxyPipeline(response, brotli) ==
    ProxyRespond(response,
                 Decompressed(response.content,
                              Lower(HeaderGet(response.headers, "content-encoding", "")),
                              brotli),
                 Lower(HeaderGet(response.headers, "content-type", "")))

\* proxy_resource, app.py 787-797: the body and its content type
ResourceRespond(content, content_type) ==
    ClientResponse(200, NoValue, "", FALSE, content, FALSE,
                   ("Content-Type" :> content_type)
                       @@ ("Access-Control-Allow-Origin" :> "*"),
                   content_type, "")

\* proxy_resource, app.py 777-797
ResourcePipeline(response, brotli) ==
    ResourceRespond(Decompressed(response.content,
                                 Lower(HeaderGet(response.headers, "content-encoding", "")),
                                 brotli),
                    HeaderGet(response.headers, "content-type",
                              "application/octet-stream"))

\* the except clauses with the one for ConnectionError tried first
ProxyFetchErrorConnectionFirst(kind) ==
    IF IsInstance(kind, "ConnectionError")
    THEN ErrorResponse(502, "false", "Could not connect to the website", FALSE)
    ELSE IF IsInstance(kind, "Timeout")
    THEN ErrorResponse(504, "false", "Request timed out", FALSE)
    ELSE IF IsInstance(kind, "SSLError")
    THEN ErrorResponse(502, "false", "SSL certificate verification failed", FALSE)
    ELSE ErrorResponse(500, "false", "An unexpected error occurred", FALSE)

\* what the client gets when an exception leaves proxy_request: the
\* application registers no error handler, the framework answers with its
\* own 500 page
FrameworkError == ErrorResponse(500, NoValue, "Internal Server Error", FALSE)

GenericError == ErrorResponse(500, "false", "An unexpected error occurred", FALSE)

\* proxy_request, app.py 732-737: the clause for every other exception.  Its
\* first statement (733) formats session_id into the log line: where the
\* exception was raised before line 613 bound session_id, that statement
\* raises UnboundLocalError and the clause never reaches its return.
UnexpectedError(locals) ==
    IF locals.session_id = NoLocals.session_id
    THEN FrameworkError
    ELSE GenericError

\* proxy_request, app.py 711-737: the except clauses in their order, the
\* first whose class the exception is an instance of answers
ProxyFetchError(kind) ==
    IF IsInstance(kind, "Timeout")
    THEN ErrorResponse(504, "false", "Request timed out", FALSE)
    ELSE IF IsInstance(kind, "SSLError")
    THEN ErrorResponse(502, "false", "SSL certificate verification failed", FALSE)
    ELSE IF IsInstance(kind, "ConnectionError")
    THEN ErrorResponse(502, "false", "Could not connect to the website", FALSE)
    ELSE ErrorResponse(500, "false", "An unexpected error occurred", FALSE)

\* the stages with the size limit applied before the body is decompressed
FinishStagesRawSize(response, brotli) ==
    IF response.content.len > MAX_RESPONSE_SIZE
    THEN << "size_check", "response" >>
    ELSE << "size_check" >>
         \o (IF Lower(HeaderGet(response.headers, "content-encoding", "")) # ""
             THEN << "decompress" >> ELSE << >>)
         \o << "decode" >>
         \o (IF HasSubstring(Lower(HeaderGet(response.headers, "content-type", "")),
                             "text/html")
             THEN << "rewrite" >> ELSE << >>)
         \o << "sanitize", "response" >>

\* proxy_request, app.py 662-709: the stages that run once the upstream
\* response is in, in the order of the statements: decompress_content (670,
\* when a Content-Encoding is named), the size check (674), detect_encoding
\* and decode (681-688), rewrite_html_content (694, text/html only),
\* strip_security_headers (697), the response (675 or 701)
FinishStages(response, brotli) ==
    (IF Lower(HeaderGet(response.headers, "content-encoding", "")) # ""
     THEN << "decompress" >> ELSE << >>)
    \o << "size_check" >>
    \o (IF Decompressed(response.content,
                        Lower(HeaderGet(response.headers, "content-encoding", "")),
                        brotli).len > MAX_RESPONSE_SIZE
        THEN << "response" >>
        ELSE << "decode" >>
             \o (IF HasSubstring(Lower(HeaderGet(response.headers, "content-type", "")),
                                 "text/html")
                 THEN << "rewrite" >> ELSE << >>)
             \o << "sanitize", "response" >>)

(***************************************************************************)
(* Steps shared by the actions.                                            *)
(***************************************************************************)
\* handler h ran these stages of proxy_request, in this order
Stage(h, names) ==
    stages' = [stages EXCEPT ![h] = @ \o names]

\* a call of log_audit: stamp the entry, append it
RecordAudit(event_type, details, user_id) ==
    LET entry == AuditEntry(clock + 1, event_type, details, CLIENT_IP, user_id)
    IN  /\ audit_log' = log_audit(audit_log, entry)
        /\ audit_history' = Append(audit_history, entry)
        /\ clock' = clock + 1

\* the handler returns: its locals are gone
Return(h, response) ==
    /\ pc' = [pc EXCEPT ![h] = "done"]
    /\ resp' = [resp EXCEPT ![h] = response]
    /\ loc' = [loc EXCEPT ![h] = NoLocals]

\* remember whether this step of h changed the cookie jar
Touch(h) ==
    touched' = [touched EXCEPT ![h] = @ \/ (session_cookies' # session_cookies)]

\* get_session_cookies, then requests.get / session.get: read the session's
\* cookies, issue the request with them
IssueRequest(h) ==
    /\ upstream' = [upstream EXCEPT ![h] =
          Append(@, [url     |-> loc[h].target_url,
                     cookies |-> get_session_cookies(session_cookies, loc[h].session_id),
                     raised  |-> NoValue,
                     final   |-> NoValue])]
    /\ session_cookies' = JarAfterRead(session_cookies, loc[h].session_id)
    /\ Touch(h)

(***************************************************************************)
(* /proxy: proxy_request (app.py 592-737).                                 *)
(***************************************************************************)
\* lines 612-633, once the decision d on the URL is known
ProxyDecide(h, r, session_id, d) ==
    /\ RecordAudit("proxy_request", [url |-> r.url, session_id |-> session_id], session_id)
    /\ IF d.raised
       THEN /\ Return(h, UnexpectedError([NoLocals EXCEPT !.session_id = session_id]))
            /\ Stage(h, << "normalize", "response" >>)
       ELSE IF ~d.valid
       THEN /\ Return(h, ErrorResponse(403, "false", d.reason, TRUE))
            /\ Stage(h, << "normalize", "validate", "response" >>)
       ELSE /\ pc' = [pc EXCEPT ![h] = "proxy_send"]
            /\ loc' = [loc EXCEPT ![h] = [NoLocals EXCEPT !.target_url = d.target,
                                                          !.session_id = session_id]]
            /\ Stage(h, << "normalize", "validate" >>)
            /\ UNCHANGED resp

\* lines 599-633: parse the body (603; it raises for a body that is not
\* JSON, before anything is logged), audit the request, normalize, validate
ProxyBegin(h, r) ==
    /\ pc[h] = "idle"
    /\ r.endpoint = "proxy"
    /\ req' = [req EXCEPT ![h] = r]
    /\ IF r.body = "unparsable"
       THEN /\ Return(h, UnexpectedError(loc[h]))
            /\ Stage(h, << "response" >>)
            /\ UNCHANGED << audit_log, audit_history, clock >>
       ELSE IF r.url = NoValue
       THEN /\ RecordAudit("proxy_invalid_request", [error |-> "Missing URL"], NoValue)
            /\ Return(h, ErrorResponse(400, "false", "Missing required field: url", FALSE))
            /\ Stage(h, << "response" >>)
       ELSE ProxyDecide(h, r, IF r.session = NoValue THEN "anonymous" ELSE r.session,
                        ProxyUrlDecision(r.url))
    /\ UNCHANGED << session_cookies, brotli_installed, upstream, touched, wrote, merges, urlVars, fnVars >>

\* lines 635-656: read the session's cookies and send the upstream request
ProxySend(h) ==
    /\ pc[h] = "proxy_send"
    /\ IssueRequest(h)
    /\ Stage(h, << "jar_read", "fetch" >>)
    /\ pc' = [pc EXCEPT ![h] = "proxy_wait"]
    /\ UNCHANGED << audit_log, audit_history, clock, brotli_installed, req, loc, resp,
                    wrote, merges, urlVars, fnVars >>

\* the request that handler h is waiting for raises
Raise(h, kind) ==
    upstream' = [upstream EXCEPT ![h][Len(upstream[h])].raised = kind]

\* the request that handler h is waiting for is answered by r, the response
\* of the last URL of the redirect chain
Arrive(h, r) ==
    upstream' = [upstream EXCEPT ![h][Len(upstream[h])].final = r.url]

\* lines 711-730: the upstream request raised
ProxyFail(h, kind) ==
    /\ pc[h] = "proxy_wait"
    /\ Raise(h, kind)
    /\ Return(h, ProxyFetchError(kind))
    /\ Stage(h, << "response" >>)
    /\ UNCHANGED << sharedVars, brotli_installed, req, touched, wrote, merges, urlVars, fnVars >>

\* lines 650-660: the upstream response arrived in full
ProxyReceive(h, r) ==
    /\ pc[h] = "proxy_wait"
    /\ Arrive(h, r)
    /\ loc' = [loc EXCEPT ![h].response = r]
    /\ pc' = [pc EXCEPT ![h] = IF r.cookies # EmptyDict THEN "ssc_check"
                               ELSE "proxy_finish"]
    /\ UNCHANGED << sharedVars, brotli_installed, req, resp, touched, wrote, stages, merges, urlVars, fnVars >>

\* set_session_cookies, line 532: the membership test.  The three statements
\* of set_session_cookies are separate steps: nothing stops another handler
\* thread from running between them.
SscCheck(h) ==
    /\ pc[h] = "ssc_check"
    /\ pc' = [pc EXCEPT ![h] =
                IF SessionAbsent(session_cookies, loc[h].session_id)
                THEN "ssc_create" ELSE "ssc_update"]
    /\ Stage(h, << "jar_merge" >>)
    /\ UNCHANGED << sharedVars, brotli_installed, req, loc, resp, upstream, touched, wrote, merges, urlVars, fnVars >>

\* set_session_cookies, line 533
SscCreate(h) ==
    /\ pc[h] = "ssc_create"
    /\ session_cookies' = CreateSession(session_cookies, loc[h].session_id)
    /\ pc' = [pc EXCEPT ![h] = "ssc_update"]
    /\ Touch(h)
    /\ UNCHANGED << audit_log, audit_history, clock, brotli_installed, req, loc, resp,
                    upstream, wrote, stages, merges, urlVars, fnVars >>

\* set_session_cookies, line 534
SscUpdate(h) ==
    /\ pc[h] = "ssc_update"
    /\ session_cookies' = UpdateSession(session_cookies, loc[h].session_id,
                                        loc[h].response.cookies)
    /\ pc' = [pc EXCEPT ![h] = "proxy_finish"]
    /\ Touch(h)
    /\ wrote' = [wrote EXCEPT ![h] = JarCall(loc[h].session_id, loc[h].response.cookies)]
    /\ UNCHANGED << audit_log, audit_history, clock, brotli_installed, req, loc, resp,
                    upstream, stages, merges, urlVars, fnVars >>

\* lines 662-709
ProxyFinish(h) ==
    /\ pc[h] = "proxy_finish"
    /\ Return(h, ProxyPipeline(loc[h].response, brotli_installed))
    /\ Stage(h, FinishStages(loc[h].response, brotli_installed))
    /\ UNCHANGED << sharedVars, brotli_installed, req, upstream, touched, wrote, merges, urlVars, fnVars >>

(***************************************************************************)
(* /resource: proxy_resource (app.py 740-801).                             *)
(***************************************************************************)
\* lines 758-761, once the decision d on the URL is known
ResourceDecide(h, session_id, d) ==
    IF ~d.valid
    THEN Return(h, ErrorResponse(403, NoValue, d.reason, FALSE))
    ELSE /\ pc' = [pc EXCEPT ![h] = "resource_send"]
         /\ loc' = [loc EXCEPT ![h] = [NoLocals EXCEPT !.target_url = d.target,
                                                       !.session_id = session_id]]
         /\ UNCHANGED resp

\* lines 748-761: read the parameters, unquote, validate
ResourceBegin(h, r) ==
    /\ pc[h] = "idle"
    /\ r.endpoint = "resource"
    /\ req' = [req EXCEPT ![h] = r]
    /\ IF r.url = NoValue
       THEN Return(h, ErrorResponse(400, NoValue, "Missing url parameter", FALSE))
       ELSE ResourceDecide(h, IF r.session = NoValue THEN "anonymous" ELSE r.session,
                           ResourceUrlDecision(r.url))
    /\ UNCHANGED << sharedVars, brotli_installed, upstream, touched, wrote, stages, merges, urlVars, fnVars >>

\* lines 763-775: read the session's cookies and send the upstream request
ResourceSend(h) ==
    /\ pc[h] = "resource_send"
    /\ IssueRequest(h)
    /\ pc' = [pc EXCEPT ![h] = "resource_wait"]
    /\ UNCHANGED << audit_log, audit_history, clock, brotli_installed, req, loc, resp,
                    wrote, stages, merges, urlVars, fnVars >>

\* lines 799-801: the upstream request raised
ResourceFail(h, kind) ==
    /\ pc[h] = "resource_wait"
    /\ Raise(h, kind)
    /\ Return(h, ErrorResponse(500, NoValue, "Failed to fetch resource", FALSE))
    /\ UNCHANGED << sharedVars, brotli_installed, req, touched, wrote, stages, merges, urlVars, fnVars >>

\* lines 777-797: the upstream response arrived in full
ResourceReceive(h, r) ==
    /\ pc[h] = "resource_wait"
    /\ Arrive(h, r)
    /\ Return(h, ResourcePipeline(r, brotli_installed))
    /\ UNCHANGED << sharedVars, brotli_installed, req, touched, wrote, stages, merges, urlVars, fnVars >>

(***************************************************************************)
(* The service: handlers serving requests concurrently.                    *)
(***************************************************************************)
\* no handler has received a request
HandlersIdle ==
    /\ pc = [h \in Handlers |-> "idle"]
    /\ req = [h \in Handlers |-> NoRequest]
    /\ loc = [h \in Handlers |-> NoLocals]
    /\ resp = [h \in Handlers |-> NoResponse]
    /\ upstream = [h \in Handlers |-> << >>]
    /\ touched = [h \in Handlers |-> FALSE]
    /\ wrote = [h \in Handlers |-> NoCall]
    /\ stages = [h \in Handlers |-> << >>]

\* the service runs where `import brotli` (app.py 473) succeeds
BrotliInstalled == brotli_installed = TRUE

\* app.py 157: session_cookies = {}
JarEmpty ==
    /\ session_cookies = [t \in {} |-> EmptyDict]
    /\ merges = << >>

\* app.py 119: audit_log = []
AuditEmpty ==
    /\ audit_log = << >>
    /\ audit_history = << >>
    /\ clock = 0

\* no URL under test
UrlIdle ==
    /\ u_in = ""
    /\ u_host = ""
    /\ u_proxy = NoDecision
    /\ u_resource = NoDecision

\* no function called on its own
FnIdle ==
    /\ fn_call = NothingCalled
    /\ fn_ret = NotReturned

Init == HandlersIdle /\ BrotliInstalled /\ JarEmpty /\ AuditEmpty /\ UrlIdle /\ FnIdle

Next ==
    \/ \E h \in Handlers, r \in Requests : ProxyBegin(h, r)
    \/ \E h \in Handlers : ProxySend(h)
    \/ \E h \in Handlers, kind \in FetchErrors : ProxyFail(h, kind)
    \/ \E h \in Handlers : \E r \in UpstreamResponses(loc[h].target_url) : ProxyReceive(h, r)
    \/ \E h \in Handlers : SscCheck(h)
    \/ \E h \in Handlers : SscCreate(h)
    \/ \E h \in Handlers : SscUpdate(h)
    \/ \E h \in Handlers : ProxyFinish(h)
    \/ \E h \in Handlers, r \in Requests : ResourceBegin(h, r)
    \/ \E h \in Handlers : ResourceSend(h)
    \/ \E h \in Handlers, kind \in FetchErrors : ResourceFail(h, kind)
    \/ \E h \in Handlers : \E r \in UpstreamResponses(loc[h].target_url) : ResourceReceive(h, r)

Spec == Init /\ [][Next]_vars

(***************************************************************************)
(* The URL decisions on their own: a URL string is given to both entry     *)
(* points, each decides on it.                                             *)
(***************************************************************************)
Schemes == {"http", "https"}

\* literal addresses inside the ranges of BLOCKED_IP_RANGES
BlockedIPv4Hosts ==
    { "127.0.0.1", "127.255.255.254", "10.0.0.5", "10.255.0.1", "172.16.0.1",
      "172.31.255.255", "192.168.1.1", "169.254.169.254", "0.0.0.0", "0.1.2.3" }

\* the IPv6 loopback address and an IPv6 link-local address
BlockedIPv6Hosts == { "::1", "fe80::1" }

BlockedLiteralHosts == BlockedIPv4Hosts \cup BlockedIPv6Hosts

\* literal addresses outside every blocked range
PublicLiteralHosts ==
    { "8.8.8.8", "172.15.0.1", "172.32.0.1", "192.169.1.1", "2606:4700::1111" }

Ports == { "", ":8080" }

PathsAndQueries == { "", "/", "/admin?x=1" }

\* a literal address as it stands in a URL: IPv6 in brackets
InUrl(host) == IF Contains(host, ":") THEN "[" \o host \o "]" ELSE host

ComposeUrl(scheme, host, port, tail) == scheme \o "://" \o InUrl(host) \o port \o tail

\* what a user types that is no complete URL
BareInputs ==
    { "example.com", "google.com/search?q=1", "10.0.0.5", "localhost:5000",
      "example.com:abc", "[bad", "", "/path", "ftp://example.com/f" }

\* host names, typed with or without scheme, port, path, query and fragment
NamedInputs ==
    { <<"google.com", "google.com">>, <<"example.com/", "example.com">>,
      <<"  microsoft.com  ", "microsoft.com">>, <<"Apple.com:8443/a?b#c", "Apple.com">>,
      <<"http://facebook.com?x=1", "facebook.com">>, <<"https://amazon.com/#f", "amazon.com">>,
      <<"www.google.com", "www.google.com">>, <<"mail.google.com", "mail.google.com">>,
      <<"amazon.co.uk", "amazon.co.uk">>, <<"http://apple.example.com/", "apple.example.com">>,
      <<"google", "google">>, <<"http://user@example.com/", "example.com">>,
      <<"googleapis.com", "googleapis.com">>, <<"www.com", "www.com">> }

UrlCase(text, host) == [text |-> text, host |-> host]

UrlCases ==
    { UrlCase(ComposeUrl(scheme, host, port, tail), host) :
        scheme \in Schemes, host \in BlockedLiteralHosts \cup PublicLiteralHosts,
        port \in Ports, tail \in PathsAndQueries }
    \cup { UrlCase(text, "") : text \in BareInputs }
    \cup { UrlCase(input[1], input[2]) : input \in NamedInputs }

UrlInit ==
    /\ HandlersIdle /\ BrotliInstalled /\ JarEmpty /\ AuditEmpty /\ FnIdle
    /\ \E c \in UrlCases : u_in = c.text /\ u_host = c.host
    /\ u_proxy = NoDecision
    /\ u_resource = NoDecision

\* proxy_request decides on the URL (app.py 621-633)
UrlProxy ==
    /\ u_proxy = NoDecision
    /\ u_proxy' = ProxyUrlDecision(u_in)
    /\ UNCHANGED << sharedVars, brotli_installed, handlerVars, merges, u_in, u_host, u_resource, fnVars >>

\* proxy_resource decides on the URL (app.py 755-761)
UrlResource ==
    /\ u_resource = NoDecision
    /\ u_resource' = ResourceUrlDecision(u_in)
    /\ UNCHANGED << sharedVars, brotli_installed, handlerVars, merges, u_in, u_host, u_proxy, fnVars >>

UrlNext == UrlProxy \/ UrlResource

UrlSpec == UrlInit /\ [][UrlNext]_vars

(***************************************************************************)
(* The cookie jar on its own: calls of set_session_cookies one after the   *)
(* other, none interleaved with another.                                   *)
(***************************************************************************)
MaxMerges == 3

Sessions == { "s1", "s2" }

CookieNames == { "a", "b" }

CookieDicts == { "a" :> "1", "a" :> "2", "b" :> "2", ("a" :> "3") @@ ("b" :> "4") }

JarMerge(session_token, cookies) ==
    /\ Len(merges) < MaxMerges
    /\ session_cookies' = set_session_cookies(session_cookies, session_token, cookies)
    /\ merges' = Append(merges, JarCall(session_token, cookies))
    /\ UNCHANGED << audit_log, audit_history, clock, brotli_installed, handlerVars, urlVars, fnVars >>

JarNext == \E session_token \in Sessions, cookies \in CookieDicts : JarMerge(session_token, cookies)

JarSpec == Init /\ [][JarNext]_vars

(***************************************************************************)
(* The audit log on its own: calls of log_audit one after the other, on an *)
(* empty log and on a log that earlier requests have filled almost to its  *)
(* limit.                                                                  *)
(***************************************************************************)
AuditPrefill == 9998

MaxAuditCalls == 4

\* the entry the i-th of the earlier requests left
EarlierEntry(i) ==
    AuditEntry(i, "proxy_request",
               [url |-> "http://example.com/", session_id |-> "anonymous"],
               CLIENT_IP, "anonymous")

AuditEvent(event_type, details, user_id) ==
    [event_type |-> event_type, details |-> details, user_id |-> user_id]

\* the events proxy_request logs (app.py 606, 616-619)
AuditEvents ==
    { AuditEvent("proxy_invalid_request", [error |-> "Missing URL"], NoValue),
      AuditEvent("proxy_request", [url |-> "http://example.com/", session_id |-> "s1"], "s1"),
      AuditEvent("proxy_request", [url |-> "http://10.0.0.5/", session_id |-> "anonymous"],
                 "anonymous") }

AuditInit ==
    /\ HandlersIdle /\ BrotliInstalled /\ JarEmpty /\ UrlIdle /\ FnIdle
    /\ \E n \in {0, AuditPrefill} :
          /\ audit_log = [i \in 1..n |-> EarlierEntry(i)]
          /\ audit_history = [i \in 1..n |-> EarlierEntry(i)]
          /\ clock = n

AuditCall(e) ==
    /\ \/ clock < MaxAuditCalls
       \/ AuditPrefill <= clock /\ clock < AuditPrefill + MaxAuditCalls
    /\ RecordAudit(e.event_type, e.details, e.user_id)
    /\ UNCHANGED << session_cookies, brotli_installed, handlerVars, merges, urlVars, fnVars >>

AuditNext == \E e \in AuditEvents : AuditCall(e)

AuditSpec == AuditInit /\ [][AuditNext]_vars

(***************************************************************************)
(* Properties.                                                             *)
(***************************************************************************)
RequestsWithUrl == { r \in Requests : r.url # NoValue }

\* the string each entry point hands to validate_url for a request
ValidatedUrl ==
    [r \in RequestsWithUrl |->
        IF r.endpoint = "proxy" THEN normalize_url(r.url).value ELSE unquote(r.url)]

\* what validate_url answers for each of these strings
Verdict == [u \in { ValidatedUrl[r] : r \in RequestsWithUrl } |-> validate_url(u)]

\* C1: validate_url rejects every URL whose host is a literal IPv4 or IPv6
\* address in the loopback, private, link-local or 0.0.0.0/8 ranges, for
\* http and https and for any port, path or query.  (/resource hands such a
\* URL to validate_url unchanged.)
C1_BlockedLiteralRejected ==
    (u_host \in BlockedLiteralHosts /\ u_resource # NoDecision /\ u_resource.target = u_in)
        => ~u_resource.valid

\* C2: a handler issues an upstream request only for a URL validate_url
\* accepted; a request whose URL validate_url rejects ends with a 403 that
\* carries validate_url's reason, has issued no upstream request and has not
\* changed the cookie jar.
C2_FetchOnlyAfterAccept ==
    \A h \in Handlers :
        /\ \A i \in 1..Len(upstream[h]) :
              /\ upstream[h][i].url \in DOMAIN Verdict
              /\ Verdict[upstream[h][i].url].valid
        /\ (pc[h] = "done" /\ req[h].url # NoValue /\ ~Verdict[ValidatedUrl[req[h]]].valid)
              => /\ resp[h].status = 403
                 /\ resp[h].error = Verdict[ValidatedUrl[req[h]]].reason
                 /\ upstream[h] = << >>
                 /\ ~touched[h]

C2_Witness ==
    \E h \in Handlers, g \in Handlers :
        /\ pc[h] = "done" /\ req[h].url = "http://10.0.0.5/" /\ resp[h].status = 403
        /\ resp[h].error = "Access to private/internal IP addresses is not allowed"
        /\ upstream[g] # << >>

\* C3: for every input URL string /proxy and /resource reach the same
\* accept/reject decision with the same reason.
C3_SameDecision ==
    (u_proxy # NoDecision /\ u_resource # NoDecision)
        => /\ u_proxy.valid = u_resource.valid
           /\ u_proxy.reason = u_resource.reason

\* C4: once a request has been answered with the 403 of a rejected URL, the
\* audit log holds an entry that records the reason of the rejection.
C4_RejectionAudited ==
    \A h \in Handlers :
        (pc[h] = "done" /\ resp[h].status = 403)
            => \E i \in 1..Len(audit_log) :
                  \E f \in DOMAIN audit_log[i].details :
                      audit_log[i].details[f] = resp[h].error

\* C5: every cookie name a completed set_session_cookies call wrote is in
\* the jar of its session, whatever other handlers did concurrently.
C5_NoLostUpdate ==
    \A h \in Handlers :
        wrote[h] # NoCall
            => /\ wrote[h].session \in DOMAIN session_cookies
               /\ \A n \in DOMAIN wrote[h].cookies :
                      n \in DOMAIN session_cookies[wrote[h].session]

\* C6: a handler changes the cookie jar only after its upstream response
\* has arrived, and with the cookies of that response; a /proxy request that
\* ended in a rejection, a timeout, a TLS error or a connection error has
\* changed no session's jar.
C6_MergeOnlyAfterResponse ==
    \A h \in Handlers :
        /\ (touched[h] \/ wrote[h] # NoCall)
              => pc[h] \in {"ssc_update", "proxy_finish", "done"}
        /\ (wrote[h] # NoCall /\ pc[h] = "proxy_finish")
              => wrote[h] = JarCall(loc[h].session_id, loc[h].response.cookies)
        /\ (pc[h] = "done" /\ req[h].endpoint = "proxy"
                /\ resp[h].status \in {403, 502, 504})
              => ~touched[h] /\ wrote[h] = NoCall

C6_Witness ==
    \E h \in Handlers, g \in Handlers :
        /\ pc[h] = "done" /\ req[h].endpoint = "proxy" /\ resp[h].status = 504
        /\ upstream[h] # << >>
        /\ wrote[g] # NoCall

\* the calls, by position in merges, that wrote cookie n of session s
WritesTo(s, n) ==
    { i \in 1..Len(merges) : merges[i].session = s /\ n \in DOMAIN merges[i].cookies }

Last(S) == CHOOSE i \in S : \A j \in S : j <= i

\* C7: after any sequence of set_session_cookies calls each cookie of each
\* session holds the value of the last call that wrote it to that session
\* (sessions and names no call wrote are absent), and two further calls
\* with disjoint names give the same jar in either order.
C7_LastWriteWins ==
    /\ \A s \in Sessions :
          /\ s \in DOMAIN session_cookies <=> \E i \in 1..Len(merges) : merges[i].session = s
          /\ s \in DOMAIN session_cookies =>
                \A n \in CookieNames :
                    IF WritesTo(s, n) = {}
                    THEN n \notin DOMAIN session_cookies[s]
                    ELSE /\ n \in DOMAIN session_cookies[s]
                         /\ session_cookies[s][n] = merges[Last(WritesTo(s, n))].cookies[n]
    /\ \A s \in Sessions, c \in CookieDicts, d \in CookieDicts :
          DOMAIN c \cap DOMAIN d = {}
              => set_session_cookies(set_session_cookies(session_cookies, s, c), s, d)
                   = set_session_cookies(set_session_cookies(session_cookies, s, d), s, c)

C7_Witness ==
    /\ Len(merges) = 3
    /\ merges[1] = JarCall("s1", "a" :> "1")
    /\ merges[2] = JarCall("s2", "b" :> "2")
    /\ merges[3] = JarCall("s1", "a" :> "2")
    /\ session_cookies["s1"]["a"] = "2"
    /\ session_cookies["s2"] = ("b" :> "2")

\* C8: after k sequential log_audit calls the log holds the last
\* min(k, 10000) entries given to log_audit, in the order they were given.
C8_MostRecentEntries ==
    /\ Len(audit_log) <= AUDIT_LOG_MAX
    /\ Len(audit_log) = IF Len(audit_history) < AUDIT_LOG_MAX
                        THEN Len(audit_history) ELSE AUDIT_LOG_MAX
    /\ audit_log = SubSeq(audit_history,
                          Len(audit_history) - Len(audit_log) + 1, Len(audit_history))

C8_Witness ==
    /\ Len(audit_history) > AUDIT_LOG_MAX + 1
    /\ Len(audit_log) = AUDIT_LOG_MAX
    /\ audit_log[1] # audit_history[1]

\* C9: when /proxy answers, the size limit has been applied to the body as
\* decompress_content returned it: a body over the limit gives the bare 413
\* error (no content, no headers, nothing rewritten), any other body is
\* returned.
C9_SizeCheckedAfterDecompression ==
    [][\A h \in Handlers :
          (pc[h] = "proxy_finish" /\ pc'[h] = "done")
              => IF Decompressed(loc[h].response.content,
                                 Lower(HeaderGet(loc[h].response.headers,
                                                 "content-encoding", "")),
                                 brotli_installed).len > MAX_RESPONSE_SIZE
                 THEN resp'[h] = ErrorResponse(413, "false",
                                     "Response too large. Maximum size is 50.0MB", FALSE)
                 ELSE /\ resp'[h].status = 200
                      /\ resp'[h].content.len <= MAX_RESPONSE_SIZE]_vars

C9_Witness ==
    \E h \in Handlers :
        /\ pc[h] = "done" /\ req[h].endpoint = "proxy"
        /\ resp[h].status = 413 /\ resp[h].content = NoContent
        /\ wrote[h] = JarCall("s1", "b" :> "2")

\* C10: /resource never answers with a body of more than the size limit.
C10_ResourceSizeLimited ==
    \A h \in Handlers :
        (pc[h] = "done" /\ req[h].endpoint = "resource")
            => resp[h].content.len <= MAX_RESPONSE_SIZE

(***************************************************************************)
(* strip_security_headers on its own: it is given a header mapping.        *)
(***************************************************************************)
MaxHeaders == 3

\* header names as servers spell them: blocked names in several cases,
\* names outside the blocked list, and further members of the families
\* the blocked list names some members of
HeaderNames ==
    { "X-Frame-Options", "x-frame-options", "Content-Security-Policy",
      "Content-Security-Policy-Report-Only", "Set-Cookie", "SET-COOKIE",
      "Content-Encoding", "Transfer-Encoding", "Content-Length",
      "Cross-Origin-Opener-Policy", "Server", "Content-Type", "X-Request-Id",
      "Set-Cookie3", "Cross-Origin-Foo-Policy", "Content-Security-Policy-Extra" }

HeaderValue(name) == "value of " \o name

HeaderMappings ==
    { [k \in names |-> HeaderValue(k)] :
        names \in { ns \in SUBSET HeaderNames : Cardinality(ns) <= MaxHeaders } }

HeaderInit ==
    /\ HandlersIdle /\ BrotliInstalled /\ JarEmpty /\ AuditEmpty /\ UrlIdle
    /\ \E headers \in HeaderMappings :
          fn_call = [fn |-> "strip_security_headers", headers |-> headers]
    /\ fn_ret = NotReturned

StripCall ==
    /\ fn_ret = NotReturned
    /\ fn_ret' = [stage |-> 1, value |-> strip_security_headers(fn_call.headers)]
    /\ UNCHANGED << sharedVars, brotli_installed, handlerVars, merges, urlVars, fn_call >>

HeaderNext == StripCall

HeaderSpec == HeaderInit /\ [][HeaderNext]_vars

\* C11: the result of strip_security_headers has no key that is, in any
\* case, x-frame-options, content-security-policy, set-cookie,
\* content-encoding, transfer-encoding or content-length, and every header
\* whose lower-cased name is not in the blocked list is in the result under
\* its own spelling with its value.
C11_BlockedGoneOthersKept ==
    fn_ret.stage = 1 =>
        /\ \A k \in DOMAIN fn_ret.value :
              Lower(k) \notin { "x-frame-options", "content-security-policy", "set-cookie",
                                "content-encoding", "transfer-encoding", "content-length" }
        /\ \A k \in DOMAIN fn_call.headers :
              Lower(k) \notin blocked_headers
                  => k \in DOMAIN fn_ret.value /\ fn_ret.value[k] = fn_call.headers[k]

C11_Witness ==
    /\ fn_ret.stage = 1
    /\ DOMAIN fn_call.headers = { "x-frame-options", "SET-COOKIE", "X-Request-Id" }
    /\ fn_ret.value = ("X-Request-Id" :> "value of X-Request-Id")

\* C12: the result of strip_security_headers has no key whose lower-cased
\* name starts with content-security-policy, starts with set-cookie, or is
\* of the form cross-origin-*-policy.
C12_FamiliesRemoved ==
    fn_ret.stage = 1 =>
        \A k \in DOMAIN fn_ret.value :
            /\ ~StartsWith(Lower(k), "content-security-policy")
            /\ ~StartsWith(Lower(k), "set-cookie")
            /\ ~(StartsWith(Lower(k), "cross-origin-") /\ EndsWith(Lower(k), "-policy"))

(***************************************************************************)
(* decompress_content on its own: it is given bytes and an encoding label, *)
(* with or without the brotli library installed.                           *)
(***************************************************************************)
\* bytes given to decompress_content: whether they are plain text, and the
\* byte string x they are gzip(x) of, if any
DecompressCase(content, plain_text, gzipped, original) ==
    [content |-> content, plain_text |-> plain_text, gzipped |-> gzipped,
     original |-> original]

DecompressCases ==
    { \* gzip of a 1 KB page, compressed: the stream shows no text
      DecompressCase(Body(300, FALSE, "gzip", 1024, TRUE), FALSE, TRUE, PlainBody(1024, TRUE)),
      \* gzip of a 28-byte page in a stored block (compresslevel 0): the page
      \* text stands in the first 100 bytes of the stream
      DecompressCase(Body(51, TRUE, "gzip", 28, TRUE), FALSE, TRUE, PlainBody(28, TRUE)),
      \* gzip of binary data
      DecompressCase(Body(300, FALSE, "gzip", 2048, FALSE), FALSE, TRUE, PlainBody(2048, FALSE)),
      \* a zlib stream, a raw deflate stream, a brotli stream
      DecompressCase(Body(200, FALSE, "zlib", 1024, TRUE), FALSE, FALSE, NoContent),
      DecompressCase(Body(200, FALSE, "deflate", 1024, TRUE), FALSE, FALSE, NoContent),
      DecompressCase(Body(200, FALSE, "br", 1024, TRUE), FALSE, FALSE, NoContent),
      \* a decoded page: starts with '<'
      DecompressCase(PlainBody(1024, TRUE), TRUE, FALSE, NoContent),
      \* decoded text that does not pass the text test: "body { color: red }"
      DecompressCase(PlainBody(19, FALSE), TRUE, FALSE, NoContent),
      \* decoded text that is also a complete raw deflate stream of one
      \* byte: ";\nhello();\nvar x = 1;"
      DecompressCase(Body(22, FALSE, "deflate", 1, FALSE), TRUE, FALSE, NoContent),
      \* bytes of no coding that are no text
      DecompressCase(PlainBody(512, FALSE), FALSE, FALSE, NoContent) }

EncodingLabels == { "", "gzip", "deflate", "br", "gzip, deflate", "identity", "x-custom" }

DecompressInit ==
    /\ HandlersIdle /\ JarEmpty /\ AuditEmpty /\ UrlIdle
    /\ brotli_installed \in BOOLEAN
    /\ \E c \in DecompressCases, encoding \in EncodingLabels :
          fn_call = [fn |-> "decompress_content", case |-> c, encoding |-> encoding]
    /\ fn_ret = NotReturned

DecompressCall ==
    /\ fn_ret = NotReturned
    /\ fn_ret' = [stage |-> 1,
                  value |-> decompress_content(fn_call.case.content, fn_call.encoding,
                                               brotli_installed)]
    /\ UNCHANGED << sharedVars, brotli_installed, handlerVars, merges, urlVars, fn_call >>

\* decompress_content applied to what it returned, with the same label
DecompressAgain ==
    /\ fn_ret.stage = 1
    /\ fn_ret' = [stage |-> 2,
                  value |-> decompress_content(fn_ret.value, fn_call.encoding,
                                               brotli_installed)]
    /\ UNCHANGED << sharedVars, brotli_installed, handlerVars, merges, urlVars, fn_call >>

DecompressNext == DecompressCall \/ DecompressAgain

DecompressSpec == DecompressInit /\ [][DecompressNext]_vars

\* C13: decompress_content(gzip(x), "gzip") returns x.
C13_GzipRoundTrip ==
    (fn_ret.stage = 1 /\ fn_call.case.gzipped /\ fn_call.encoding = "gzip")
        => fn_ret.value = fn_call.case.original

\* C14: for plain-text input decompress_content returns the input, under
\* every label, applied once or twice.
C14_PlainTextUnchanged ==
    (fn_ret.stage >= 1 /\ fn_call.case.plain_text)
        => fn_ret.value = fn_call.case.content

\* whether the decoder the label selects accepts the bytes
DecoderAccepts(content, encoding, brotli) ==
    IF HasSubstring(encoding, "gzip") THEN content.coding = "gzip"
    ELSE IF HasSubstring(encoding, "deflate") THEN content.coding \in {"zlib", "deflate"}
    ELSE IF HasSubstring(encoding, "br") THEN brotli /\ content.coding = "br"
    ELSE FALSE

\* C15: decompress_content returns bytes for every input (no exception
\* leaves it), and returns the input itself when the decoder its label
\* selects fails, when brotli is not installed, and when the label is
\* unknown or empty.
C15_NeverRaises ==
    fn_ret.stage = 1 =>
        /\ fn_ret.value # DecodeError
        /\ ~DecoderAccepts(fn_call.case.content, fn_call.encoding, brotli_installed)
              => fn_ret.value = fn_call.case.content

C15_Witness ==
    /\ fn_ret.stage = 1
    /\ ~brotli_installed
    /\ fn_call.encoding = "br"
    /\ fn_call.case.content.coding = "br"
    /\ fn_ret.value = fn_call.case.content

(***************************************************************************)
(* rewrite_html_content on its own: documents with and without <head> and  *)
(* <html>, with and without attributes on them, with absolute, relative    *)
(* and unparsable src, href and url() values, rewritten once and then      *)
(* rewritten again, against final URLs of which one does not parse.        *)
(***************************************************************************)
Documents ==
    { "<html><head><title>t</title></head><body><p>hi</p></body></html>",
      "<html><head lang=\"en\"><title>t</title></head><body></body></html>",
      "<html lang=\"en\"><head lang=\"en\"></head><body></body></html>",
      "<html><body><p>no head</p></body></html>",
      "<html lang=\"en\"><body></body></html>",
      "<HTML><HEAD></HEAD><BODY></BODY></HTML>",
      "<html><head><base href=\"http://cdn.example.net/\"></head><body></body></html>",
      "<html><head></head><body><img src=\"http://example.com/a.png\"></body></html>",
      "<html><head></head><body><a href='https://other.example.org/x?y=1'>l</a></body></html>",
      "<html><head></head><body><script src=\"//cdn.example.net/lib.js\"></script></body></html>",
      "<html><head></head><body><a href=\"/about\">a</a><img src=\"img/logo.png\"></body></html>",
      "<html><head></head><body><img src=\"http://[bad/a.png\"></body></html>",
      "<html><head><style>body{background:url(img/bg.png)}</style></head><body></body></html>",
      "<html><head></head><body><div style=\"background:url('data:image/png;base64,AAAA')\"></div></body></html>",
      "<html><head></head><body><header>top</header></body></html>",
      "<p>fragment <a href=\"http://example.com/\">x</a></p>",
      "<html><head></head><body><div style=\"background:url(http://[bad/x.png)\"></div></body></html>",
      "<HTML><HEAD></HEAD><BODY><IMG SRC = \"http://example.com/a.png\"></BODY></HTML>",
      "<html><head></head><body><a href=\"../up/x.html?q=1#f\">u</a><i style=\"x:url(../i.png)\"></i></body></html>" }

FinalUrls == { "http://example.com/dir/page.html", "https://example.com/", "http://[bad/" }

RewriteInit ==
    /\ HandlersIdle /\ BrotliInstalled /\ JarEmpty /\ AuditEmpty /\ UrlIdle
    /\ \E html \in Documents, base_url \in FinalUrls :
           fn_call = [fn |-> "rewrite_html_content", html |-> html, base_url |-> base_url]
    /\ fn_ret = NotReturned

\* response_content = rewrite_html_content(html, final_url, session_id)
RewriteCall ==
    /\ fn_call.fn = "rewrite_html_content"
    /\ fn_ret = NotReturned
    /\ fn_ret' = [stage |-> 1,
                  value |-> rewrite_html_content(fn_call.html, fn_call.base_url, "s1")]
    /\ UNCHANGED << sharedVars, brotli_installed, handlerVars, merges, urlVars, fn_call >>

\* the rewritten document is fetched through the proxy and rewritten again
RewriteAgain ==
    /\ fn_call.fn = "rewrite_html_content"
    /\ fn_ret.stage = 1
    /\ fn_ret' = [stage |-> 2, first |-> fn_ret.value,
                  value |-> rewrite_html_content(fn_ret.value, fn_call.base_url, "s1")]
    /\ UNCHANGED << sharedVars, brotli_installed, handlerVars, merges, urlVars, fn_call >>

RewriteNext == RewriteCall \/ RewriteAgain

RewriteSpec == RewriteInit /\ [][RewriteNext]_vars

(***************************************************************************)
(* Properties of rewrite_html_content, checked in RewriteSpec.             *)
(***************************************************************************)
\* rewrite_html_content has returned from its first call
Rewritten == fn_call.fn = "rewrite_html_content" /\ fn_ret.stage = 1

\* C16: rewrite_html_content never returns a partial result: when a rewrite
\* step fails internally (the final URL, or a src, href or url() value, does
\* not resolve), the returned string is exactly the input HTML.
C16_OriginalOnFailure ==
    (Rewritten /\ RewriteRaised(fn_call.html, fn_call.base_url))
        => fn_ret.value = fn_call.html

\* an opening tag of the given name begins at index i: the name, then > or
\* white space
TagAt(lower, tag, i) ==
    /\ BeginsAt(lower, tag, i)
    /\ i + Len(tag) <= Len(lower)
    /\ At(lower, i + Len(tag)) \in Whitespace \cup {">"}

HasTag(lower, tag) == \E i \in 1..Len(lower) : TagAt(lower, tag, i)

\* the index of the first opening tag of the given name
FirstTag(lower, tag) ==
    CHOOSE i \in 1..Len(lower) :
        TagAt(lower, tag, i) /\ \A j \in 1..(i - 1) : ~TagAt(lower, tag, j)

\* the bridge script follows the first <head ...> tag immediately
ScriptFirstInHead(out, lower) ==
    /\ HasTag(lower, "<head")
    /\ BeginsAt(out, postmessage_script, FindFrom(out, ">", FirstTag(lower, "<head")) + 1)

\* C17: for a document with a <head> opening tag (with or without
\* attributes), or with an <html> opening tag and no <head>, the output has
\* the bridge script as the first child of <head>, immediately after the
\* head opening tag, also after the base tag was injected.
C17_ScriptFirstInHead ==
    (/\ Rewritten
     /\ ~RewriteRaised(fn_call.html, fn_call.base_url)
     /\ HasTag(Lower(fn_call.html), "<head") \/ HasTag(Lower(fn_call.html), "<html"))
        => ScriptFirstInHead(fn_ret.value, Lower(fn_ret.value))

\* the number of base tags of a document
BaseTags(lower) == Cardinality({ i \in 1..Len(lower) : BeginsAt(lower, "<base", i) })

\* C18: rewriting a document that rewrite_html_content already rewrote, for
\* the same final URL, adds no base tag, and a document that has a base tag
\* before the first rewrite has as many after it.
C18_NoSecondBaseTag ==
    fn_call.fn = "rewrite_html_content" =>
        /\ fn_ret.stage = 2
               => BaseTags(Lower(fn_ret.value)) = BaseTags(Lower(fn_ret.first))
        /\ (fn_ret.stage >= 1 /\ BaseTags(Lower(fn_call.html)) > 0)
               => BaseTags(Lower(fn_ret.value)) = BaseTags(Lower(fn_call.html))

\* a document without base tag got one from the first rewrite and has one
\* after the second
C18_Witness ==
    /\ fn_call.fn = "rewrite_html_content" /\ fn_ret.stage = 2
    /\ BaseTags(Lower(fn_call.html)) = 0
    /\ BaseTags(Lower(fn_ret.first)) = 1
    /\ BaseTags(Lower(fn_ret.value)) = 1

RECURSIVE AttrStarts(_, _, _)
\* where the src/href pattern matches in a document, as re.sub finds it
AttrStarts(html, lower, from) ==
    IF NextAttr(html, lower, from) = 0 THEN {}
    ELSE {NextAttr(html, lower, from)}
             \cup AttrStarts(html, lower,
                             AttrMatch(html, lower, NextAttr(html, lower, from)) + 1)

IsAbsolute(url) ==
    StartsWith(url, "http://") \/ StartsWith(url, "https://") \/ StartsWith(url, "//")

\* the attribute name="value" of the input, as the output has to hold it
AttrExpected(match, name, url, base_url) ==
    IF IsAbsolute(url) THEN name \o "=\"" \o urljoin(base_url, url).value \o "\""
    ELSE match

\* the output holds what is expected for the attribute at index i, whose
\* opening quote is at q and closing quote at r
AttrResolved(html, out, base_url, i, q, r) ==
    HasSubstring(out, AttrExpected(SubSeq(html, i, r),
                                   SubSeq(html, i, i + AttrNameLen(Lower(html), i) - 1),
                                   SubSeq(html, q + 1, r - 1), base_url))

\* C19: every src= or href= attribute of the input is in the output
\* unchanged when its value is relative, and as a well-formed name="v", v
\* being the value resolved against the final URL, when its value starts
\* with http://, https:// or //.
C19_AbsoluteResolved ==
    (Rewritten /\ ~RewriteRaised(fn_call.html, fn_call.base_url))
        => \A i \in AttrStarts(fn_call.html, Lower(fn_call.html), 1) :
               AttrResolved(fn_call.html, fn_ret.value, fn_call.base_url, i,
                            AttrQuote(fn_call.html,
                                      SkipSpace(fn_call.html,
                                                i + AttrNameLen(Lower(fn_call.html), i))),
                            AttrMatch(fn_call.html, Lower(fn_call.html), i))

(***************************************************************************)
(* The stylesheet rewrite of /resource, checked in Spec.                   *)
(***************************************************************************)
\* C20: a body that /resource returns with a CSS content type has had its
\* url(...) references rewritten against the final URL; a body of any other
\* content type is returned without rewriting.
C20_CssResourceRewritten ==
    \A h \in Handlers :
        (pc[h] = "done" /\ req[h].endpoint = "resource" /\ resp[h].status = 200)
            => (resp[h].rewritten <=> HasSubstring(Lower(resp[h].content_type), "text/css"))

(***************************************************************************)
(* The cookie path of /resource, checked in Spec.                          *)
(***************************************************************************)
\* the step in which /resource answers handler h's request with a body
ResourceAnswers(h) == pc[h] = "resource_wait" /\ pc'[h] = "done" /\ resp'[h].status = 200

\* the jar holds every cookie of the response under the session
CookiesMerged(jar, session_id, cookies) ==
    \A n \in DOMAIN cookies :
        /\ session_id \in DOMAIN jar
        /\ n \in DOMAIN jar[session_id]
        /\ jar[session_id][n] = cookies[n]

\* C21: a resource fetch follows the cookie path of a full-page fetch: when
\* /resource answers with the body of an upstream response, the cookies of
\* that response are in the session's jar, so that a later request of the
\* session sends them.
C21_ResourceMergesCookies ==
    [][\A h \in Handlers :
          ResourceAnswers(h)
              => \A r \in UpstreamResponses(loc[h].target_url) :
                     resp'[h] = ResourcePipeline(r, brotli_installed)
                         => CookiesMerged(session_cookies', loc[h].session_id, r.cookies)]_vars

(***************************************************************************)
(* The typed errors of a failed full-page fetch, checked in Spec.          *)
(***************************************************************************)
\* the kind of failure each exception of requests is
FailureKind ==
    [ ConnectTimeout  |-> "timeout",
      ReadTimeout     |-> "timeout",
      SSLError        |-> "ssl",
      ConnectionError |-> "connection" ]

\* the typed error of each kind of failure: status and message, and neither
\* content nor upstream headers
TypedError ==
    [ timeout    |-> ErrorResponse(504, "false", "Request timed out", FALSE),
      ssl        |-> ErrorResponse(502, "false", "SSL certificate verification failed", FALSE),
      connection |-> ErrorResponse(502, "false", "Could not connect to the website", FALSE) ]

\* the exception handler h's upstream request raised, NoValue if none
RaisedBy(h) == IF upstream[h] = << >> THEN NoValue ELSE upstream[h][Len(upstream[h])].raised

\* C22: a full-page fetch whose upstream request fails answers with the typed
\* error of the kind of the failure: a timeout (a connect timeout too) as
\* timeout, a TLS certificate failure as SSL error, any other connection
\* failure as connection error, never one kind as another, and with neither
\* content nor upstream headers.
C22_TypedFetchError ==
    \A h \in Handlers :
        (pc[h] = "done" /\ req[h].endpoint = "proxy" /\ RaisedBy(h) # NoValue)
            => /\ resp[h] = TypedError[FailureKind[RaisedBy(h)]]
               /\ resp[h].content = NoContent
               /\ resp[h].headers = EmptyDict
               /\ \A k \in DOMAIN TypedError :
                      k # FailureKind[RaisedBy(h)] => resp[h].error # TypedError[k].error

\* a connect timeout was answered as a timeout, while another handler's TLS
\* failure was answered as an SSL error
C22_Witness ==
    \E h \in Handlers, g \in Handlers :
        /\ pc[h] = "done" /\ req[h].endpoint = "proxy"
        /\ RaisedBy(h) = "ConnectTimeout" /\ resp[h].status = 504
        /\ pc[g] = "done" /\ req[g].endpoint = "proxy"
        /\ RaisedBy(g) = "SSLError" /\ resp[g].status = 502

(***************************************************************************)
(* Properties of normalize_url, checked in UrlSpec.                        *)
(***************************************************************************)
\* the input names no scheme
NoScheme(url) == ~HasSubstring(url, "://")

\* the scheme and path of what normalize_url returns
SchemeAndPath ==
    (u_proxy # NoDecision /\ ~u_proxy.raised)
        => /\ urlparse(u_proxy.target).scheme \in {"http", "https"}
           /\ StartsWith(urlparse(u_proxy.target).path, "/")
           /\ NoScheme(u_in) => urlparse(u_proxy.target).scheme = "https"

\* C23: for every input without scheme normalize_url returns a URL whose
\* scheme is https, and for every input the URL it returns has a scheme of
\* http or https and a path of at least "/".
C23_NormalizedScheme == (u_proxy # NoDecision => ~u_proxy.raised) /\ SchemeAndPath

\* the brand list of the www. rule
Brands == {"google", "microsoft", "facebook", "amazon", "apple"}

\* the host after the www. rule: prefixed exactly when it has two labels of
\* which the first is a brand
BrandPrefixed(host, labels) ==
    IF Len(labels) = 2 /\ labels[1] \in Brands THEN "www." \o host ELSE host

\* the www. rule on the host names
BrandPrefixExact ==
    (u_proxy # NoDecision /\ ~u_proxy.raised /\ u_host # ""
         /\ u_host \notin BlockedLiteralHosts \cup PublicLiteralHosts)
        => Hostname(urlparse(u_proxy.target))
               = BrandPrefixed(Lower(u_host), Split(Lower(u_host), "."))

\* normalize_url returns its own output unchanged
NormalizeIdempotent ==
    (u_proxy # NoDecision /\ ~u_proxy.raised)
        => normalize_url(u_proxy.target) = [raised |-> FALSE, value |-> u_proxy.target]

\* C24: normalize_url prefixes www. to the host exactly when the host has
\* two labels and the first is in the brand list, and normalize_url applied
\* to its own output returns that output unchanged.
C24_BrandPrefixIdempotent == BrandPrefixExact /\ NormalizeIdempotent

(***************************************************************************)
(* detect_encoding on its own: responses with and without a charset in the *)
(* Content-Type header, with and without a meta tag, the tag inside the    *)
(* first 2048 bytes, across their end or beyond it, and with each answer   *)
(* of chardet.                                                             *)
(***************************************************************************)
\* response headers, each with the charset its Content-Type names
HeaderCase(headers, charset) == [headers |-> headers, charset |-> charset]

HeaderCases ==
    { HeaderCase(EmptyDict, NoValue),
      HeaderCase("Content-Type" :> "text/html", NoValue),
      HeaderCase("Content-Type" :> "text/html; charset=utf-8", "utf-8"),
      HeaderCase("content-type" :> "text/html; charset=ISO-8859-1", "iso-8859-1"),
      HeaderCase("Content-Type" :> "text/html;charset=\"windows-1251\"; x=1", "windows-1251") }

\* a meta tag: its text up to the charset, the charset, the rest
MetaTag(before, charset, after) == [before |-> before, charset |-> charset, after |-> after]

NoMetaTag == MetaTag("", "", "")

MetaTags ==
    { MetaTag("<meta charset=\"", "UTF-8", "\">"),
      MetaTag("<meta http-equiv=\"Content-Type\" content=\"text/html; charset=",
              "iso-8859-1", "\">"),
      MetaTag("<META CHARSET = '", "koi8-r", "' />") }

\* how many bytes precede the meta tag
MetaOffsets == { 0, 2010, 2030, 2048, 3000 }

\* what chardet.detect answers
ChardetAnswers == { NoValue, "windows-1252", ChardetRaises }

\* how much of the charset of a tag at the given offset lies in the first
\* 2048 bytes, NoValue if none of it does
CharsetWithin(offset, tag) ==
    IF tag.charset = "" \/ offset + Len(tag.before) >= 2048 THEN NoValue
    ELSE IF offset + Len(tag.before) + Len(tag.charset) <= 2048 THEN tag.charset
    ELSE SubSeq(tag.charset, 1, 2048 - offset - Len(tag.before))

EncodingCase(header, offset, tag, guess) ==
    [fn |-> "detect_encoding",
     content |-> Content(offset, tag.before \o tag.charset \o tag.after, guess),
     headers |-> header.headers,
     header_charset |-> header.charset,
     meta_charset |-> CharsetWithin(offset, tag)]

EncodingCases ==
    { EncodingCase(header, offset, tag, guess) :
        header \in HeaderCases, offset \in MetaOffsets, tag \in MetaTags,
        guess \in ChardetAnswers }
    \cup { EncodingCase(header, 0, NoMetaTag, guess) :
             header \in HeaderCases, guess \in ChardetAnswers }

EncodingInit ==
    /\ HandlersIdle /\ BrotliInstalled /\ JarEmpty /\ AuditEmpty /\ UrlIdle
    /\ fn_call \in EncodingCases
    /\ fn_ret = NotReturned

\* encoding = detect_encoding(content, response.headers)
EncodingCall ==
    /\ fn_call.fn = "detect_encoding"
    /\ fn_ret = NotReturned
    /\ fn_ret' = [stage |-> 1, value |-> detect_encoding(fn_call.content, fn_call.headers)]
    /\ UNCHANGED << sharedVars, brotli_installed, handlerVars, merges, urlVars, fn_call >>

EncodingNext == EncodingCall

EncodingSpec == EncodingInit /\ [][EncodingNext]_vars

\* detect_encoding has returned
Detected == fn_call.fn = "detect_encoding" /\ fn_ret.stage = 1

\* C25: detect_encoding returns the first match in the order: the charset of
\* the Content-Type header; the charset of a meta tag in the first 2048
\* bytes; the guess of chardet if it makes one; utf-8.  A source is never
\* returned when one before it yields a value.
C25_FirstMatchWins ==
    Detected =>
        fn_ret.value =
            IF fn_call.header_charset # NoValue THEN fn_call.header_charset
            ELSE IF fn_call.meta_charset # NoValue THEN fn_call.meta_charset
            ELSE IF fn_call.content.guess \notin {NoValue, ChardetRaises}
            THEN fn_call.content.guess
            ELSE "utf-8"

\* the header and the meta tag name different charsets and chardet makes a
\* guess: the header's is returned
C25_Witness ==
    /\ Detected
    /\ fn_call.header_charset = "iso-8859-1"
    /\ fn_call.meta_charset = "UTF-8"
    /\ fn_call.content.guess = "windows-1252"
    /\ fn_ret.value = "iso-8859-1"

(***************************************************************************)
(* The order of the stages of one /proxy request.                          *)
(***************************************************************************)
\* the pipeline, in the order of proxy_request's statements
PipelineOrder ==
    << "normalize", "validate", "jar_read", "fetch", "jar_merge", "decompress",
       "size_check", "decode", "rewrite", "sanitize", "response" >>

StageRank(name) == CHOOSE i \in 1..Len(PipelineOrder) : PipelineOrder[i] = name

Ran(log, name) == \E i \in 1..Len(log) : log[i] = name

\* the stages every request that gets that far runs; the others depend on
\* the upstream response
AlwaysRun == { "normalize", "validate", "jar_read", "fetch", "size_check", "decode", "sanitize" }

\* strictly ascending: in pipeline order, none twice
InPipelineOrder(log) ==
    \A i, j \in 1..Len(log) : i < j => StageRank(log[i]) < StageRank(log[j])

\* a stage other than the response runs only after every earlier stage that
\* always runs
AfterPredecessors(log) ==
    \A i \in 1..Len(log) :
        log[i] # "response" =>
            \A m \in AlwaysRun : StageRank(m) < StageRank(log[i]) => Ran(log, m)

\* C26: within one /proxy request the stages run strictly in pipeline order,
\* each at most once and only after the stages before it: normalize,
\* validate, cookie-jar read, upstream fetch, cookie-jar merge, decompress,
\* size check, decode, HTML rewrite (exactly when the content type is
\* text/html), header sanitize, response; a page is returned only after all
\* of them, and the upstream request is sent at most once
C26_PipelineOrder ==
    \A h \in Handlers :
        /\ InPipelineOrder(stages[h])
        /\ AfterPredecessors(stages[h])
        /\ Len(upstream[h]) <= 1
        /\ req[h].endpoint = "proxy" =>
              /\ Ran(stages[h], "fetch") <=> upstream[h] # << >>
              /\ pc[h] = "done" <=> Ran(stages[h], "response")
              /\ pc[h] = "done" => (Ran(stages[h], "jar_merge") <=> wrote[h] # NoCall)
              /\ resp[h].status = 200 =>
                    /\ \A m \in AlwaysRun : Ran(stages[h], m)
                    /\ Ran(stages[h], "rewrite")
                          <=> HasSubstring(resp[h].content_type, "text/html")

\* two pages were returned: one after a cookie merge and a rewrite, one after
\* a decompression
C26_Witness ==
    \E h, g \in Handlers :
        /\ resp[h].status = 200 /\ req[h].endpoint = "proxy"
        /\ Ran(stages[h], "jar_merge") /\ Ran(stages[h], "rewrite")
        /\ resp[g].status = 200 /\ req[g].endpoint = "proxy"
        /\ Ran(stages[g], "decompress")

(***************************************************************************)
(* log_audit called from several handler threads.  Its statements are      *)
(* separate steps: nothing in log_audit stops another thread from running  *)
(* between the length test, the pop and the append.                        *)
(***************************************************************************)
\* lines 565-571: the call builds its entry
LogAuditEnter(h, e) ==
    /\ pc[h] = "idle"
    /\ \/ clock < MaxAuditCalls
       \/ AuditPrefill <= clock /\ clock < AuditPrefill + MaxAuditCalls
    /\ loc' = [loc EXCEPT ![h] =
                  [audit_entry |-> AuditEntry(clock + 1, e.event_type, e.details,
                                              CLIENT_IP, e.user_id)]]
    /\ clock' = clock + 1
    /\ pc' = [pc EXCEPT ![h] = "log_check"]
    /\ UNCHANGED << session_cookies, audit_log, audit_history, brotli_installed, req, resp,
                    upstream, touched, wrote, stages, merges, urlVars, fnVars >>

\* line 574: if len(audit_log) >= 10000
LogAuditCheck(h) ==
    /\ pc[h] = "log_check"
    /\ pc' = [pc EXCEPT ![h] = IF Len(audit_log) >= AUDIT_LOG_MAX
                               THEN "log_pop" ELSE "log_append"]
    /\ UNCHANGED << sharedVars, brotli_installed, req, loc, resp, upstream, touched, wrote,
                    stages, merges, urlVars, fnVars >>

\* line 575: audit_log.pop(0)
LogAuditPop(h) ==
    /\ pc[h] = "log_pop"
    /\ audit_log' = Tail(audit_log)
    /\ pc' = [pc EXCEPT ![h] = "log_append"]
    /\ UNCHANGED << session_cookies, audit_history, clock, brotli_installed, req, loc, resp,
                    upstream, touched, wrote, stages, merges, urlVars, fnVars >>

\* line 577: audit_log.append(audit_entry); the call returns
LogAuditAppend(h) ==
    /\ pc[h] = "log_append"
    /\ audit_log' = Append(audit_log, loc[h].audit_entry)
    /\ audit_history' = Append(audit_history, loc[h].audit_entry)
    /\ pc' = [pc EXCEPT ![h] = "idle"]
    /\ loc' = [loc EXCEPT ![h] = NoLocals]
    /\ UNCHANGED << session_cookies, clock, brotli_installed, req, resp, upstream, touched,
                    wrote, stages, merges, urlVars, fnVars >>

\* the events the racing handlers log: a request with a URL, one without
RaceEvents == { e \in AuditEvents : e.user_id # "anonymous" }

AuditRaceNext ==
    \E h \in Handlers :
        \/ \E e \in RaceEvents : LogAuditEnter(h, e)
        \/ LogAuditCheck(h)
        \/ LogAuditPop(h)
        \/ LogAuditAppend(h)

AuditRaceSpec == AuditInit /\ [][AuditRaceNext]_vars

\* C27: with log_audit called from several handlers at once the audit log
\* never holds more than 10000 entries, and it holds the entries of the
\* completed appends in their order, less the oldest ones
C27_BoundedUnderConcurrency ==
    /\ Len(audit_log) <= AUDIT_LOG_MAX
    /\ Len(audit_log) <= Len(audit_history)
    /\ audit_log = SubSeq(audit_history, Len(audit_history) - Len(audit_log) + 1,
                          Len(audit_history))

\* C28: every unexpected internal error of a /proxy request ends in the one
\* generic failure response (500, "An unexpected error occurred"), also when
\* it is raised before the session id and the target URL are known, as for
\* a request body that does not parse
C28_GenericFailure ==
    \A h \in Handlers :
        (pc[h] = "done" /\ req[h].endpoint = "proxy"
            /\ (resp[h].status = 500 \/ req[h].body = "unparsable"))
            => resp[h] = GenericError

\* C29: every URL a handler's upstream request contacted, the URL it was
\* issued for and the URL it ended at after following redirects, is one that
\* validate_url accepts; no page is returned from any other URL
C29_RedirectsValidated ==
    \A h \in Handlers :
        /\ \A i \in 1..Len(upstream[h]) :
              /\ validate_url(upstream[h][i].url).valid
              /\ upstream[h][i].final # NoValue => validate_url(upstream[h][i].final).valid
        /\ resp[h].final_url # "" => validate_url(resp[h].final_url).valid

\* the number of copies of the bridge script in a document
ScriptCopies(html) ==
    Cardinality({ i \in 1..Len(html) : BeginsAt(html, postmessage_script, i) })

\* C30: one call of rewrite_html_content on a document with a <head> (or an
\* <html>) tag inserts exactly one copy of the bridge script and at most one
\* base tag: <header> and further <head> tags get none
C30_SingleInjection ==
    (/\ Rewritten
     /\ ~RewriteRaised(fn_call.html, fn_call.base_url)
     /\ HasSubstring(Lower(fn_call.html), "<head>")
            \/ HasSubstring(Lower(fn_call.html), "<html>"))
        => /\ ScriptCopies(fn_ret.value) = ScriptCopies(fn_call.html) + 1
           /\ BaseTags(Lower(fn_ret.value)) <= BaseTags(Lower(fn_call.html)) + 1

====
